---- MODULE Spec2Model ----
(***************************************************************************)
(* Lucendex quote engine: state-machine model of the in-memory KV store    *)
(* (backend/internal/kv, MemoryStore) and of the router                    *)
(* (backend/internal/router): the per-pair circuit breaker, the            *)
(* pathfinder, the validator, the quote hash and the quote engine.         *)
(*                                                                         *)
(* Every MemoryStore handler takes s.mu for its whole body, every          *)
(* CircuitBreaker handler takes cb.mu for its whole body; a handler is     *)
(* therefore one atomic action of the store / breaker state.  SpecRL       *)
(* models the lock itself, with the threads that contend for it.  The      *)
(* pathfinder and the hash are pure: SpecPF calls FindBestRoute on         *)
(* generated snapshots, SpecHS evaluates ComputeQuoteHash, and SpecQE      *)
(* drives GenerateQuote over a pathfinder and a breaker.                   *)
(***************************************************************************)
EXTENDS Integers, Sequences, FiniteSets, TLC

VARIABLES
  \* ---- kv.MemoryStore ----
  data,          \* map[string]*entry: fullKey -> entry
  lru,           \* container/list of fullKeys, index 1 = front (most recent)
  maxBytes,      \* configured byte budget
  currentBytes,  \* byte counter
  evictions,     \* number of entries discarded by evictOldest
  hits,          \* number of Gets that returned a value
  misses,        \* number of Gets that returned none
  now,           \* time.Now() of the store's clock
  recency,       \* history: the fullKeys held, most recently used first
  stopped,       \* s.stopped (atomic.Bool)
  stopCh,        \* s.stopCh: "open" or "closed"
  loopPc,        \* the cleanupLoop goroutine: at its "select" or "returned"
  closePc,       \* thread -> position in Close
  closeRet,      \* thread -> what its last Close returned
  closeCalls,    \* thread -> number of Close calls it has made
  \* ---- threads calling IncrementRateLimit (SpecRL) ----
  mu,            \* holder of s.mu, 0 when free
  tpc,           \* thread -> position in IncrementRateLimit
  tloc,          \* thread -> locals of the call (the entry read, the count)
  tret,          \* thread -> value returned
  \* ---- router.CircuitBreaker ----
  states,        \* map[string]*breakerState: pair -> state
  threshold,     \* base deviation threshold, in 1/10000
  cautionMode,   \* cb.cautionMode
  cautionUntil,  \* cb.cautionUntil
  timers,        \* fire times of the pending time.AfterFunc callbacks
  cbNow,         \* time.Now() of the breaker's clock, in seconds
  cbRet,         \* the last call of the breaker and what it returned
  streak,        \* history: out-of-threshold checks in a row since the pair was
                 \* closed with no failures
  persistCallback, \* cb.persistCallback, NoCallback when nil
  persisted,     \* the last invocation of the persist callback
  \* ---- goroutines calling the breaker (SpecLK) ----
  cbMu,          \* holder of cb.mu's write lock, 0 when free
  cbReaders,     \* holders of cb.mu's read lock
  lkPc,          \* goroutine -> position in its call
  lkOp,          \* goroutine -> the call it is in
  timerPc,       \* the goroutine of the time.AfterFunc callback
  \* ---- router.Pathfinder ----
  pfPools,       \* pf.pools
  pfOffers,      \* pf.offers
  pfCall,        \* the last call of FindBestRoute and what it returned
  \* ---- router.ComputeQuoteHash ----
  hsFirst,       \* the first evaluation: its input, the hash, the process
  hsLast,        \* the latest evaluation
  hsCount,       \* number of evaluations so far
  \* ---- router.QuoteEngine ----
  qeCall,        \* the last call of GenerateQuote: the request, the phases it
                 \* invoked, what it returned, the breaker's states before it
  \* ---- router.Router ----
  auditLogs,     \* the audit records the store holds, oldest first
  rtCall,        \* the last call of Router.Quote: what it returned and the
                 \* records it handed to LogAudit
  \* ---- the rate limiter's counters ----
  window,        \* history: per partner, the successful increments since the
                 \* counter last returned 1
  \* ---- the API server ----
  apiRequestIDs, \* the request ids the database holds, with their partner
  apiCall        \* the last request served and the response written

kvVars == <<data, lru, maxBytes, currentBytes, evictions, hits, misses, now, recency>>
clVars == <<stopped, stopCh, loopPc, closePc, closeRet, closeCalls>>
rlVars == <<mu, tpc, tloc, tret>>
cbVars ==
  <<states, threshold, cautionMode, cautionUntil, timers, cbNow, cbRet, streak,
    persistCallback, persisted>>
lkVars == <<cbMu, cbReaders, lkPc, lkOp, timerPc>>
pfVars == <<pfPools, pfOffers, pfCall>>
hsVars == <<hsFirst, hsLast, hsCount>>
qeVars == <<qeCall>>
rtVars == <<auditLogs, rtCall>>
swVars == <<window>>
apiVars == <<apiRequestIDs, apiCall>>
vars == <<kvVars, clVars, rlVars, cbVars, lkVars, pfVars, hsVars, qeVars, rtVars, swVars, apiVars>>
\* what each specification leaves alone
outsideKV == <<apiVars, swVars, rtVars, lkVars, clVars, rlVars, cbVars, pfVars, hsVars, qeVars>>
outsideRL == <<apiVars, swVars, rtVars, lkVars, clVars, cbVars, pfVars, hsVars, qeVars>>
outsideCB == <<apiVars, swVars, rtVars, lkVars, clVars, kvVars, rlVars, pfVars, hsVars, qeVars>>
outsidePF == <<apiVars, swVars, rtVars, lkVars, clVars, kvVars, rlVars, cbVars, hsVars, qeVars>>
outsideHS == <<apiVars, swVars, rtVars, lkVars, clVars, kvVars, rlVars, cbVars, pfVars, qeVars>>
outsideQE == <<apiVars, swVars, rtVars, lkVars, clVars, kvVars, rlVars, hsVars>>
outsideCL == <<apiVars, swVars, rtVars, lkVars, rlVars, cbVars, pfVars, hsVars, qeVars>>
outsideLK == <<apiVars, swVars, rtVars, kvVars, clVars, rlVars, pfVars, hsVars, qeVars>>
outsideRT == <<apiVars, swVars, kvVars, clVars, rlVars, lkVars, hsVars>>
outsideSW == <<apiVars, rtVars, lkVars, clVars, rlVars, cbVars, pfVars, hsVars, qeVars>>
outsideAPI == <<swVars, rtVars, lkVars, clVars, rlVars, cbVars, pfVars, hsVars, qeVars>>

(***************************************************************************)
(* Bounds of the model.                                                    *)
(***************************************************************************)
MaxTime == 3            \* the clock runs from 1 to MaxTime
MaxCount == 2           \* a rate-limit counter is incremented up to MaxCount
MaxEvictions == 2       \* the evictions counter is followed up to MaxEvictions
MaxLookups == 1         \* hits and misses are followed up to MaxLookups Gets
QuotaRateLimits == 1    \* namespaceQuotas["rate_limits"], scaled down from 100000
QuotaSystem == 2        \* namespaceQuotas["system"], scaled down from 128
NThreads == 3           \* threads calling IncrementRateLimit concurrently
NClosers == 2           \* threads calling Close concurrently
MaxCloses == 2          \* Close calls of one thread

(***************************************************************************)
(* Store configuration (NewMemoryStoreWithConfig) and inputs.              *)
(***************************************************************************)
EntryOverhead == 64
maxKeyLength == 2
maxValueSize == 7
SmallStore == 78        \* room for one entry with a 1-byte value, for none with a Large one
TwoEntryStore == 160    \* room for two entries, not for three
MaxBytesChoices == {SmallStore, TwoEntryStore}

NamespaceRateLimits == "rate_limits"
NamespaceSystem == "system"
Namespaces == {NamespaceRateLimits, NamespaceSystem}
Keys == {"a", "b"}
TTLs == {0, 1}
Large == [i \in 1..7 |-> "w"]
Values == { <<"1">>, Large }
\* the (namespace, key) pairs the handlers are called with
ValidTargets == { <<NamespaceRateLimits, "a">>, <<NamespaceRateLimits, "b">>,
                  <<NamespaceSystem, "a">> }
InvalidTargets == { <<"", "a">>, <<NamespaceSystem, "">>, <<NamespaceSystem, "kkkk">> }
TooLarge == [i \in 1..8 |-> "w"]
\* the calls of Set: a 1-byte value under every target, the Large value under
\* one, and one call for each rejection of validate
SetInputs ==
  { <<t[1], t[2], <<"1">>, ttl>> : t \in ValidTargets, ttl \in TTLs }
    \cup { <<NamespaceSystem, "a", Large, ttl>> : ttl \in TTLs }
    \cup { <<t[1], t[2], <<"1">>, 0>> : t \in InvalidTargets }
    \cup { <<NamespaceSystem, "a", TooLarge, 0>> }
\* the calls of Get and Delete
ReadInputs == ValidTargets \cup { <<NamespaceSystem, "">> }

Threads == 1..NThreads
RLPartner == "a"
NoLocals == [ttl |-> 0, ok |-> FALSE, fresh |-> FALSE, parsed |-> 0]
NoReturn == [err |-> "", count |-> 0]

namespaceQuotas == (NamespaceRateLimits :> QuotaRateLimits) @@ (NamespaceSystem :> QuotaSystem)

ErrNil == "nil"
ErrKeyEmpty == "key cannot be empty"
ErrNamespaceEmpty == "namespace cannot be empty"
ErrKeyTooLong == "key exceeds maximum length"
ErrValueTooLarge == "value exceeds maximum size"
ErrMemoryLimit == "memory limit exceeded"
ErrKeyNotFound == "key not found"
ErrNamespaceQuota == "namespace quota exceeded"
Panic == "panic: decimal division by 0"
ErrInvalidCounter == "invalid counter value"

(***************************************************************************)
(* Helpers.                                                                *)
(***************************************************************************)
Range(s) == {s[i] : i \in DOMAIN s}

\* list.Remove(e.lruNode): a no-op for a node that is no longer in the list
ListRemove(l, fullKey) == SelectSeq(l, LAMBDA k : k # fullKey)

\* list.PushFront
PushFront(l, fullKey) == <<fullKey>> \o l

\* list.MoveToFront: a no-op for a node that is no longer in the list
MoveToFront(l, fullKey) ==
  IF fullKey \in Range(l) THEN <<fullKey>> \o ListRemove(l, fullKey) ELSE l

\* delete(s.data, fullKey)
MapDelete(d, fullKey) == [k \in DOMAIN d \ {fullKey} |-> d[k]]

\* mutant: the namespace is left out of the key
makeKeyNoNamespace(namespace, key) == key

makeKey(namespace, key) == namespace \o ":" \o key

\* e.expiresAt.IsZero(): 0 stands for the zero time
IsZero(t) == t = 0

\* mutant: no entry ever counts as expired
ExpiredNever(e, t) == FALSE

\* !e.expiresAt.IsZero() && time.Now().After(e.expiresAt)
Expired(e, t) == ~IsZero(e.expiresAt) /\ t > e.expiresAt

\* e.expiresAt.IsZero() || now.Before(e.expiresAt)
Live(e, t) == IsZero(e.expiresAt) \/ t < e.expiresAt

\* strconv.FormatInt(n, 10) for n >= 0
DigitChars == <<"0", "1", "2", "3", "4", "5", "6", "7", "8", "9">>
RECURSIVE FormatInt(_)
FormatInt(n) ==
  IF n < 10 THEN <<DigitChars[n + 1]>>
  ELSE FormatInt(n \div 10) \o <<DigitChars[(n % 10) + 1]>>

\* strconv.ParseInt(string(v), 10, 64) on unsigned digit strings; -1 is the error
IsDigit(c) == \E i \in 1..10 : DigitChars[i] = c
DigitValue(c) == (CHOOSE i \in 1..10 : DigitChars[i] = c) - 1
RECURSIVE ParseDigits(_, _)
ParseDigits(v, acc) ==
  IF v = <<>> THEN acc
  ELSE ParseDigits(Tail(v), acc * 10 + DigitValue(Head(v)))
ParseInt(v) ==
  IF v # <<>> /\ \A i \in DOMAIN v : IsDigit(v[i]) THEN ParseDigits(v, 0) ELSE -1

(***************************************************************************)
(* The store as a value, so that the helpers of a handler can be chained.  *)
(***************************************************************************)
Store ==
  [data |-> data, lru |-> lru, bytes |-> currentBytes, evictions |-> evictions,
   hits |-> hits, misses |-> misses]

\* The model follows the store up to MaxEvictions evictions and MaxLookups
\* Gets, and stops at a negative byte counter.
Install(st) ==
  /\ currentBytes >= 0
  /\ st.evictions <= MaxEvictions
  /\ st.hits + st.misses <= MaxLookups
  /\ hits' = st.hits
  /\ misses' = st.misses
  /\ data' = st.data
  /\ lru' = st.lru
  /\ currentBytes' = st.bytes
  /\ evictions' = st.evictions

validate(namespace, key, value) ==
  IF namespace = "" THEN ErrNamespaceEmpty
  ELSE IF key = "" THEN ErrKeyEmpty
  ELSE IF Len(key) > maxKeyLength THEN ErrKeyTooLong
  ELSE IF Len(value) > maxValueSize THEN ErrValueTooLarge
  ELSE ErrNil

checkNamespaceQuota(st, namespace) ==
  IF namespace \notin DOMAIN namespaceQuotas THEN ErrNil
  ELSE LET count == Cardinality({k \in DOMAIN st.data :
                        st.data[k].namespace = namespace /\ Live(st.data[k], now)})
       IN IF count >= namespaceQuotas[namespace] THEN ErrNamespaceQuota ELSE ErrNil

deleteEntryLocked(st, fullKey) ==
  [st EXCEPT !.lru = ListRemove(@, fullKey),
             !.data = MapDelete(@, fullKey),
             !.bytes = @ - st.data[fullKey].size]

\* evictOldest: [ok, st]
evictOldest(st) ==
  IF st.lru = <<>> THEN [ok |-> FALSE, st |-> st]
  ELSE LET fullKey == st.lru[Len(st.lru)] IN
       IF fullKey \in DOMAIN st.data
       THEN [ok |-> TRUE,
             st |-> [deleteEntryLocked(st, fullKey) EXCEPT !.evictions = @ + 1]]
       ELSE [ok |-> FALSE, st |-> st]

\* mutant: the entry is inserted without making room for it
evictUntilFitsNoEviction(st, entrySize) == [ok |-> TRUE, st |-> st]

\* for s.currentBytes+int64(entrySize) > s.maxBytes { if !s.evictOldest() { return ErrMemoryLimit } }
RECURSIVE evictUntilFits(_, _)
evictUntilFits(st, entrySize) ==
  IF st.bytes + entrySize > maxBytes
  THEN LET r == evictOldest(st) IN
       IF r.ok THEN evictUntilFits(r.st, entrySize) ELSE [ok |-> FALSE, st |-> r.st]
  ELSE [ok |-> TRUE, st |-> st]

\* the existing entry is taken off the byte count and the list, and stays in the map
detachExisting(st, fullKey) ==
  IF fullKey \in DOMAIN st.data
  THEN [st EXCEPT !.bytes = @ - st.data[fullKey].size,
                  !.lru = ListRemove(@, fullKey)]
  ELSE st

\* mutant: no entry is given an expiry
expiresAtNever(ttl) == 0

\* var expiresAt time.Time; if ttl > 0 { expiresAt = time.Now().Add(ttl) }
expiresAt(ttl) == IF ttl > 0 THEN now + ttl ELSE 0

newEntry(namespace, key, value, ttl, entrySize) ==
  [namespace |-> namespace, key |-> key, value |-> value,
   expiresAt |-> expiresAt(ttl),
   size |-> entrySize]

insertEntry(st, fullKey, e) ==
  [st EXCEPT !.lru = PushFront(@, fullKey),
             !.data = (fullKey :> e) @@ @,
             !.bytes = @ + e.size]

\* setLocked: [err, st]
setLocked(st, namespace, key, value, ttl) ==
  LET fullKey == makeKey(namespace, key)
      entrySize == Len(fullKey) + Len(value) + EntryOverhead
      r == evictUntilFits(detachExisting(st, fullKey), entrySize)
  IN IF ~r.ok THEN [err |-> ErrMemoryLimit, st |-> r.st]
     ELSE [err |-> ErrNil,
           st |-> insertEntry(r.st, fullKey, newEntry(namespace, key, value, ttl, entrySize))]

\* the body of Set under the lock, after validate: [err, st]
SetLockedBody(st, namespace, key, value, ttl) ==
  LET qerr == checkNamespaceQuota(st, namespace)
      fullKey == makeKey(namespace, key)
      entrySize == Len(fullKey) + Len(value) + EntryOverhead
      r == evictUntilFits(detachExisting(st, fullKey), entrySize)
  IN IF qerr # ErrNil THEN [err |-> qerr, st |-> st]
     ELSE IF ~r.ok THEN [err |-> ErrMemoryLimit, st |-> r.st]
     ELSE [err |-> ErrNil,
           st |-> insertEntry(r.st, fullKey, newEntry(namespace, key, value, ttl, entrySize))]

(***************************************************************************)
(* MemoryStore handlers.  Each handler is an operator from the store to    *)
(* what the call returns and the store it leaves, and an action that       *)
(* installs that store.                                                    *)
(***************************************************************************)

\* Set: [err, st]
SetResult(st, namespace, key, value, ttl) ==
  LET verr == validate(namespace, key, value) IN
  IF verr # ErrNil THEN [err |-> verr, st |-> st]
  ELSE SetLockedBody(st, namespace, key, value, ttl)

\* Get: [ok, value, st]
GetResult(st, namespace, key) ==
  LET fullKey == makeKey(namespace, key) IN
  IF namespace = "" \/ key = "" \/ fullKey \notin DOMAIN st.data
  THEN [ok |-> FALSE, value |-> <<>>, st |-> [st EXCEPT !.misses = @ + 1]]
  ELSE IF Expired(st.data[fullKey], now)
  THEN [ok |-> FALSE, value |-> <<>>,
        st |-> [deleteEntryLocked(st, fullKey) EXCEPT !.misses = @ + 1]]
  ELSE [ok |-> TRUE, value |-> st.data[fullKey].value,
        st |-> [st EXCEPT !.lru = MoveToFront(@, fullKey), !.hits = @ + 1]]

\* Keys(namespace), as the set of the keys it returns (the order is the map's)
KeysResult(st, namespace) ==
  {st.data[k].key : k \in {fullKey \in DOMAIN st.data :
                              /\ st.data[fullKey].namespace = namespace
                              /\ Live(st.data[fullKey], now)}}

\* Stats(): the live keys counted in total and by namespace
StatsResult(st) ==
  [TotalKeys |-> Cardinality({k \in DOMAIN st.data : Live(st.data[k], now)}),
   CurrentBytes |-> st.bytes, MaxBytes |-> maxBytes, Evictions |-> st.evictions,
   Hits |-> st.hits, Misses |-> st.misses,
   NamespaceCounts |->
     [ns \in {st.data[k].namespace : k \in {x \in DOMAIN st.data : Live(st.data[x], now)}} |->
        Cardinality({k \in DOMAIN st.data :
                       st.data[k].namespace = ns /\ Live(st.data[k], now)})]]

\* Delete: [err, st]
DeleteResult(st, namespace, key) ==
  LET fullKey == makeKey(namespace, key) IN
  IF namespace = "" \/ key = "" THEN [err |-> ErrKeyEmpty, st |-> st]
  ELSE IF fullKey \notin DOMAIN st.data THEN [err |-> ErrKeyNotFound, st |-> st]
  ELSE [err |-> ErrNil, st |-> deleteEntryLocked(st, fullKey)]

\* IncrementRateLimit: [err, count, st]
IncrementResult(st, partnerID, ttl) ==
  LET fullKey == makeKey(NamespaceRateLimits, partnerID)
      ok == fullKey \in DOMAIN st.data
  IN IF partnerID = "" THEN [err |-> ErrKeyEmpty, count |-> 0, st |-> st]
     ELSE IF ~ok \/ Expired(st.data[fullKey], now)
     THEN LET st1 == IF ok THEN deleteEntryLocked(st, fullKey) ELSE st
              r == setLocked(st1, NamespaceRateLimits, partnerID, <<"1">>, ttl)
          IN [err |-> r.err, count |-> IF r.err = ErrNil THEN 1 ELSE 0, st |-> r.st]
     ELSE LET parsed == ParseInt(st.data[fullKey].value)
              count == parsed + 1
              r == setLocked(st, NamespaceRateLimits, partnerID, FormatInt(count), ttl)
          IN IF parsed < 0 THEN [err |-> ErrInvalidCounter, count |-> 0, st |-> st]
             ELSE [err |-> r.err, count |-> IF r.err = ErrNil THEN count ELSE 0, st |-> r.st]

RECURSIVE deleteAll(_, _)
deleteAll(st, toDelete) ==
  IF toDelete = {} THEN st
  ELSE LET fullKey == CHOOSE k \in toDelete : TRUE
       IN deleteAll(deleteEntryLocked(st, fullKey), toDelete \ {fullKey})

\* cleanup: the store it leaves
CleanupResult(st) ==
  deleteAll(st, {k \in DOMAIN st.data : Expired(st.data[k], now)})

\* history of uses: a successful write or a Get hit moves the key to the front
Touch(r, fullKey) == <<fullKey>> \o ListRemove(r, fullKey)
Restrict(r, d) == SelectSeq(r, LAMBDA k : k \in DOMAIN d)

KVInit ==
  /\ data = <<>>
  /\ lru = <<>>
  /\ maxBytes \in MaxBytesChoices
  /\ currentBytes = 0
  /\ evictions = 0
  /\ hits = 0
  /\ misses = 0
  /\ now = 1
  /\ recency = <<>>

Set(namespace, key, value, ttl) ==
  LET r == SetResult(Store, namespace, key, value, ttl) IN
  /\ Install(r.st)
  /\ recency' = IF r.err = ErrNil
                THEN Touch(Restrict(recency, r.st.data), makeKey(namespace, key))
                ELSE Restrict(recency, r.st.data)
  /\ UNCHANGED <<maxBytes, now>>

Get(namespace, key) ==
  LET r == GetResult(Store, namespace, key) IN
  /\ Install(r.st)
  /\ recency' = IF r.ok THEN Touch(recency, makeKey(namespace, key))
                ELSE Restrict(recency, r.st.data)
  /\ UNCHANGED <<maxBytes, now>>

Delete(namespace, key) ==
  LET r == DeleteResult(Store, namespace, key) IN
  /\ Install(r.st)
  /\ recency' = Restrict(recency, r.st.data)
  /\ UNCHANGED <<maxBytes, now>>

IncrementRateLimit(partnerID, ttl) ==
  LET r == IncrementResult(Store, partnerID, ttl) IN
  /\ r.count <= MaxCount
  /\ Install(r.st)
  /\ recency' = IF r.err = ErrNil
                THEN Touch(Restrict(recency, r.st.data), makeKey(NamespaceRateLimits, partnerID))
                ELSE Restrict(recency, r.st.data)
  /\ UNCHANGED <<maxBytes, now>>

\* cleanup, run by cleanupLoop on every tick of its ticker: the loop is at
\* its select, takes case <-ticker.C, runs cleanup and is back at the select
Cleanup ==
  LET st == CleanupResult(Store) IN
  /\ loopPc = "select"
  /\ Install(st)
  /\ recency' = Restrict(recency, st.data)
  /\ UNCHANGED <<maxBytes, now>>

\* time passes
Tick ==
  /\ now < MaxTime
  /\ now' = now + 1
  /\ UNCHANGED <<data, lru, maxBytes, currentBytes, evictions, hits, misses, recency>>

(***************************************************************************)
(* The rate limiter's use of the store: RateLimiter.Middleware calls       *)
(* IncrementRateLimit for the partner of each request, next to the other   *)
(* traffic of the store.  window records, per partner, when the counter    *)
(* last returned 1 (start), the time and ttl of the last successful        *)
(* increment (at, ttl) and what it returned (count).                       *)
(***************************************************************************)
SWPartners == {RLPartner}
SWTTLs == {1, 2}
NoWindow == [start |-> 0, at |-> 0, ttl |-> 0, count |-> 0]

SWInit == window = [p \in SWPartners |-> NoWindow]

\* count, err := rl.kv.IncrementRateLimit(partnerID.String(), ttl)
RateLimit(partnerID, ttl) ==
  LET r == IncrementResult(Store, partnerID, ttl) IN
  /\ IncrementRateLimit(partnerID, ttl)
  /\ window' = IF r.err = ErrNil
               THEN [window EXCEPT ![partnerID] =
                       [start |-> IF r.count = 1 THEN now ELSE @.start,
                        at |-> now, ttl |-> ttl, count |-> r.count]]
               ELSE window

(***************************************************************************)
(* The API server's handler chain for /partner/ routes (cmd/router/main.go *)
(* and package api).  A middleware is an operator from the request, the    *)
(* context it is given and the state it may change to either a response or *)
(* the call of the next handler.  Header values are strings; a signature   *)
(* is held as its encoding, the key that made it and the message signed.   *)
(***************************************************************************)
MaxDrift == 1                    \* 60 * time.Second, in ticks of the clock
RateLimitTTL == 1                \* 60 * time.Second, in ticks of the clock
FreePlanLimit == 1               \* scaled down from 100
ProPlanLimit == 2                \* scaled down from 1000
EnterprisePlanLimit == 3         \* scaled down from 10000

StatusOK == 200
StatusUnauthorized == 401
StatusForbidden == 403
StatusNotFound == 404
StatusTooManyRequests == 429
StatusInternalServerError == 500

ErrMissingAuthHeaders == "missing authentication headers"
ErrInvalidTimestamp == "invalid or expired timestamp"
ErrReplayAttack == "duplicate request-id (replay attack)"
ErrInvalidPartner == "invalid partner"
ErrInvalidSignature == "invalid signature"
ErrPartnerSuspended == "partner account suspended"
ErrRateLimitExceeded == "rate limit exceeded"
ErrMissingPartnerContext == "missing partner context"

\* the database: partners, their active API keys (hex of an Ed25519 public
\* key each); every query is answered
APIPartners ==
  ("p1" :> [Status |-> "active", Plan |-> "free"])
    @@ ("p2" :> [Status |-> "suspended", Plan |-> "pro"])
    @@ ("p3" :> [Status |-> "active", Plan |-> "trial"])
APIKeys == ("p1" :> "k1") @@ ("p2" :> "k2")

\* uuid.Parse succeeds on these strings
UUIDs == {"p1", "p2", "p3", "p9", "r1", "r2"}

\* time.Parse(time.RFC3339, timestamp) succeeds on these strings
Timestamps == ("t1" :> 1) @@ ("t2" :> 2) @@ ("t3" :> 3)

\* the routes of partnerMux
PartnerRoutes ==
  ("/partner/v1/quote" :> "QuoteHandler") @@ ("/partner/v1/pairs" :> "PairsHandler")
    @@ ("/partner/v1/usage" :> "UsageHandler") @@ ("/partner/v1/health" :> "HealthHandler")

NoSignature == [enc |-> "", key |-> "", msg |-> <<>>]
NoContext == [PartnerID |-> "", Partner |-> ""]

\* fmt.Sprintf("%s\n%s\n%s\n%x\n%s", Method, Path, RawQuery, bodyHash, timestamp)
Canonical(req) == <<req.Method, req.Path, req.Body, req.Timestamp>>

\* the signature of a request's canonical form with a key, base64-encoded
Sign(key, req) == [enc |-> "base64", key |-> key, msg |-> Canonical(req)]

\* ed25519.Verify(pubKeyBytes, []byte(canonical), sigBytes)
Verify(key, canonical, sig) == sig.key = key /\ sig.msg = canonical

Response(status, error, handler, ids, st, count) ==
  [status |-> status, error |-> error, handler |-> handler, ids |-> ids, st |-> st,
   count |-> count]

\* writeError
writeError(status, message, ids, st) == Response(status, message, "", ids, st, 0)

\* getLimitForPlan
getLimitForPlan(plan) ==
  IF plan = "free" THEN FreePlanLimit
  ELSE IF plan = "pro" THEN ProPlanLimit
  ELSE IF plan = "enterprise" THEN EnterprisePlanLimit
  ELSE FreePlanLimit

\* partnerMux: the endpoint handler of the path is called (what the handler
\* answers beyond being called is not followed)
partnerMux(req, ids, st, count) ==
  IF req.Path \in DOMAIN PartnerRoutes
  THEN Response(StatusOK, "", PartnerRoutes[req.Path], ids, st, count)
  ELSE Response(StatusNotFound, "404 page not found", "", ids, st, count)

\* drift := time.Since(reqTime)
drift(timestamp) == now - Timestamps[timestamp]

\* AuthMiddleware.Middleware up to the call of next: the error response, or
\* status 0 with the context and the request ids left
authenticate(req, ctx, ids, st) ==
  IF req.PartnerId = "" \/ req.RequestId = "" \/ req.Timestamp = "" \/ req.Signature.enc = ""
  THEN [resp |-> writeError(StatusUnauthorized, ErrMissingAuthHeaders, ids, st), ctx |-> ctx]
  ELSE IF req.PartnerId \notin UUIDs
  THEN [resp |-> writeError(StatusUnauthorized, "invalid partner-id format", ids, st), ctx |-> ctx]
  ELSE IF req.RequestId \notin UUIDs
  THEN [resp |-> writeError(StatusUnauthorized, "invalid request-id format", ids, st), ctx |-> ctx]
  ELSE IF req.Timestamp \notin DOMAIN Timestamps
  THEN [resp |-> writeError(StatusUnauthorized, "invalid timestamp format", ids, st), ctx |-> ctx]
  ELSE IF drift(req.Timestamp) > MaxDrift \/ drift(req.Timestamp) < 0 - MaxDrift
  THEN [resp |-> writeError(StatusUnauthorized, ErrInvalidTimestamp, ids, st), ctx |-> ctx]
  ELSE IF <<req.RequestId, req.PartnerId>> \in ids
  THEN [resp |-> writeError(StatusUnauthorized, ErrReplayAttack, ids, st), ctx |-> ctx]
  ELSE IF req.PartnerId \notin DOMAIN APIPartners
  THEN [resp |-> writeError(StatusUnauthorized, ErrInvalidPartner, ids, st), ctx |-> ctx]
  ELSE IF APIPartners[req.PartnerId].Status # "active"
  THEN [resp |-> writeError(StatusForbidden, ErrPartnerSuspended, ids, st), ctx |-> ctx]
  ELSE IF req.PartnerId \notin DOMAIN APIKeys
  THEN [resp |-> writeError(StatusUnauthorized, ErrInvalidPartner, ids, st), ctx |-> ctx]
  ELSE IF req.Signature.enc # "base64"
  THEN [resp |-> writeError(StatusUnauthorized, "invalid signature encoding", ids, st), ctx |-> ctx]
  ELSE IF ~Verify(APIKeys[req.PartnerId], Canonical(req), req.Signature)
  THEN [resp |-> writeError(StatusUnauthorized, ErrInvalidSignature, ids, st), ctx |-> ctx]
  ELSE [resp |-> Response(0, "", "", ids \cup {<<req.RequestId, req.PartnerId>>}, st, 0),
        ctx |-> [PartnerID |-> req.PartnerId, Partner |-> req.PartnerId]]

\* RateLimiter.Middleware up to the call of next: the error response, or
\* status 0 with the store left and the count returned
limit(req, ctx, ids, st) ==
  IF ctx.PartnerID = "" \/ ctx.Partner = ""
  THEN writeError(StatusInternalServerError, ErrMissingPartnerContext, ids, st)
  ELSE LET r == IncrementResult(st, ctx.PartnerID, RateLimitTTL) IN
       IF r.err # ErrNil THEN Response(0, "", "", ids, r.st, 0)
       ELSE IF r.count > getLimitForPlan(APIPartners[ctx.Partner].Plan)
       THEN Response(StatusTooManyRequests, ErrRateLimitExceeded, "", ids, r.st, r.count)
       ELSE Response(0, "", "", ids, r.st, r.count)

\* mux.Handle("/partner/", rateLimiter.Middleware(authMiddleware.Middleware(partnerMux))):
\* the handlers in the order they run, the outermost first
Chain == <<"rateLimiter", "authMiddleware", "partnerMux">>

\* handler.ServeHTTP(w, r) through a chain of handlers
RECURSIVE Serve(_, _, _, _, _, _)
Serve(chain, req, ctx, ids, st, count) ==
  IF Head(chain) = "rateLimiter"
  THEN LET r == limit(req, ctx, ids, st) IN
       IF r.status # 0 THEN r ELSE Serve(Tail(chain), req, ctx, r.ids, r.st, r.count)
  ELSE IF Head(chain) = "authMiddleware"
  THEN LET a == authenticate(req, ctx, ids, st) IN
       IF a.resp.status # 0 THEN a.resp
       ELSE Serve(Tail(chain), req, a.ctx, a.resp.ids, a.resp.st, count)
  ELSE partnerMux(req, ids, st, count)

NoAPICall ==
  [req |-> [Method |-> "", Path |-> "", Body |-> "", PartnerId |-> "", RequestId |-> "",
            Timestamp |-> "", Signature |-> NoSignature],
   status |-> 0, error |-> "", handler |-> ""]

APIInit ==
  /\ apiRequestIDs = {}
  /\ apiCall = NoAPICall

\* the response of a request to a /partner/ path is written
Written(req, r) ==
  /\ r.count <= MaxCount
  /\ Install(r.st)
  /\ recency' = IF r.count > 0
                THEN Touch(Restrict(recency, r.st.data),
                           makeKey(NamespaceRateLimits, req.PartnerId))
                ELSE Restrict(recency, r.st.data)
  /\ apiRequestIDs' = r.ids
  /\ apiCall' = [req |-> req, status |-> r.status, error |-> r.error, handler |-> r.handler]
  /\ UNCHANGED <<maxBytes, now>>

ServeHTTP(req) == Written(req, Serve(Chain, req, NoContext, apiRequestIDs, Store, 0))

(***************************************************************************)
(* Close, called by NClosers threads, and the cleanupLoop goroutine that   *)
(* NewMemoryStoreWithConfig starts.  A Close is the atomic Swap on         *)
(* s.stopped and, for the caller that swapped false, close(s.stopCh).      *)
(***************************************************************************)
Closers == 1..NClosers

CLInit ==
  /\ stopped = FALSE
  /\ stopCh = "open"
  /\ loopPc = "select"
  /\ closePc = [t \in Closers |-> "idle"]
  /\ closeRet = [t \in Closers |-> ""]
  /\ closeCalls = [t \in Closers |-> 0]

ClosePanic == "panic: close of closed channel"

\* mutant: the caller goes on to close(s.stopCh) whatever Swap returned
returnsEarlyNever(old) == FALSE
\* if s.stopped.Swap(true) { return nil }
returnsEarly(old) == old

\* Close is called, for the first time or again
CloseCall(t) ==
  /\ closePc[t] \in {"idle", "done"}
  /\ closeCalls[t] < MaxCloses
  /\ closePc' = [closePc EXCEPT ![t] = "swap"]
  /\ closeCalls' = [closeCalls EXCEPT ![t] = @ + 1]
  /\ closeRet' = [closeRet EXCEPT ![t] = ""]
  /\ UNCHANGED <<stopped, stopCh, loopPc>>

\* s.stopped.Swap(true)
CloseSwap(t) ==
  /\ closePc[t] = "swap"
  /\ stopped' = TRUE
  /\ IF returnsEarly(stopped)
     THEN /\ closePc' = [closePc EXCEPT ![t] = "done"]
          /\ closeRet' = [closeRet EXCEPT ![t] = ErrNil]
     ELSE /\ closePc' = [closePc EXCEPT ![t] = "close"]
          /\ UNCHANGED closeRet
  /\ UNCHANGED <<stopCh, loopPc, closeCalls>>

\* close(s.stopCh); return nil.  Closing a closed channel panics.
CloseChannel(t) ==
  /\ closePc[t] = "close"
  /\ stopCh' = "closed"
  /\ closePc' = [closePc EXCEPT ![t] = "done"]
  /\ closeRet' = [closeRet EXCEPT ![t] = IF stopCh = "closed" THEN ClosePanic ELSE ErrNil]
  /\ UNCHANGED <<stopped, loopPc, closeCalls>>

\* cleanupLoop takes case <-s.stopCh, which is ready once the channel is
\* closed, and returns
LoopStop ==
  /\ loopPc = "select"
  /\ stopCh = "closed"
  /\ loopPc' = "returned"
  /\ UNCHANGED <<stopped, stopCh, closePc, closeRet, closeCalls>>

(***************************************************************************)
(* The circuit breaker (router.CircuitBreaker).  Prices are decimals with  *)
(* two places, held as integers (price * 100); the threshold is held in    *)
(* 1/ThresholdScale.  The relative deviation |price - avg| / |avg| is      *)
(* compared with the threshold exactly, by cross-multiplication.           *)
(***************************************************************************)
StateClosed == "closed"
StateOpen == "open"
StateHalfOpen == "half-open"

ThresholdScale == 10000
DefaultThreshold == 500          \* 0.05
DefaultMaxPrices == 2            \* length of the price history, scaled down from 100
DefaultFailureLimit == 5
DefaultCautionDuration == 60     \* seconds
RecoveryWindow == 30             \* seconds

TickStep == RecoveryWindow       \* the breaker's clock advances one recovery window at a time
MaxTicks == 3                    \* and is followed up to MaxTicks * TickStep
MaxTimers == 2                   \* pending AfterFunc callbacks followed at once

Pairs == {"XRP-USD"}
Prices == {0, 100, 103}
CautionDurations == {TickStep, DefaultCautionDuration}

ErrCircuitBreakerOpen == "circuit breaker open"

NoCheck == [err |-> "", pre |-> ""]
NoCallback == "nil"
NoPersist == [fn |-> NoCallback, pair |-> "", state |-> <<>>]
NoStreak == [armed |-> FALSE, n |-> 0, errs |-> TRUE, at |-> 0]

Abs(x) == IF x < 0 THEN 0 - x ELSE x

RECURSIVE SumPrices(_)
SumPrices(prices) ==
  IF prices = <<>> THEN 0 ELSE Head(prices) + SumPrices(Tail(prices))

\* calculateAverage is SumPrices(prices) / Len(prices); the average is zero
\* exactly when the sum is
AverageIsZero(prices) == SumPrices(prices) = 0

\* the threshold CheckPrice compares with, as a fraction num / den:
\* cb.threshold, times 0.5 while the caution window is on
effectiveThreshold(mode, until, t) ==
  IF mode /\ t < until
  THEN [num |-> threshold, den |-> 2 * ThresholdScale]
  ELSE [num |-> threshold, den |-> ThresholdScale]

\* deviation.GreaterThan(threshold), deviation = |price - avg| / |avg|
Deviates(price, prices, thr) ==
  Abs(price * Len(prices) - SumPrices(prices)) * thr.den > thr.num * Abs(SumPrices(prices))

\* getOrCreateState
getOrCreateState(sts, pair) ==
  IF pair \in DOMAIN sts THEN sts
  ELSE [p \in DOMAIN sts \cup {pair} |->
          IF p = pair
          THEN [recentPrices |-> <<>>, lastTradeTs |-> 0, state |-> StateClosed,
                failures |-> 0, openedAt |-> 0]
          ELSE sts[p]]

\* mutant: nothing is dropped
recordPriceUnbounded(st, price) ==
  [st EXCEPT !.recentPrices = Append(@, price)]

\* recordPrice: append, and drop the oldest price beyond DefaultMaxPrices
recordPrice(st, price) ==
  LET appended == Append(st.recentPrices, price)
  IN [st EXCEPT !.recentPrices = IF Len(appended) > DefaultMaxPrices
                                 THEN Tail(appended) ELSE appended]

\* mutant: the window is over as soon as 30 s have elapsed
RecoveryDueAtWindow(elapsed) == elapsed >= RecoveryWindow

\* time.Since(state.openedAt) > 30*time.Second
RecoveryDue(elapsed) == elapsed > RecoveryWindow

\* mutant: the breaker opens one failure later
FailureLimitExceeded(failures) == failures > DefaultFailureLimit

\* state.failures >= DefaultFailureLimit
FailureLimitReached(failures) == failures >= DefaultFailureLimit

\* mutant: a half-open pair stays half-open after a good price
closeHalfOpenNever(st) == st

\* if state.state == StateHalfOpen { state.state = StateClosed; state.failures = 0 }
closeHalfOpen(st) ==
  IF st.state = StateHalfOpen
  THEN [st EXCEPT !.state = StateClosed, !.failures = 0]
  ELSE st

\* mutant: a rejected price enters the history
rejectedRecordingPrice(st, price, t) ==
  [st EXCEPT !.failures = @ + 1, !.recentPrices = Append(@, price)]

\* the state a rejected price leaves: failures++, and open at the limit
rejected(st, price, t) ==
  LET failed == [st EXCEPT !.failures = @ + 1]
  IN IF FailureLimitReached(failed.failures)
     THEN [failed EXCEPT !.state = StateOpen, !.openedAt = t]
     ELSE failed

\* mutant: a recovering pair keeps its failures
halfOpenKeepingFailures(st) == [st EXCEPT !.state = StateHalfOpen]

\* state.state = StateHalfOpen; state.failures = 0
halfOpen(st) == [st EXCEPT !.state = StateHalfOpen, !.failures = 0]

\* CheckPrice(pair, price) at time t: the error returned and the states left
CheckPriceResult(sts, pair, price, t) ==
  LET s0 == getOrCreateState(sts, pair)
      st == s0[pair]
      st1 == IF st.state = StateOpen THEN halfOpen(st) ELSE st
      thr == effectiveThreshold(cautionMode, cautionUntil, t)
      opened == rejected(st1, price, t)
  IN IF st.state = StateOpen /\ ~RecoveryDue(t - st.openedAt)
     THEN [err |-> ErrCircuitBreakerOpen, states |-> s0]
     ELSE IF st1.recentPrices = <<>>
     THEN [err |-> ErrNil, states |-> [s0 EXCEPT ![pair] = recordPrice(st1, price)]]
     ELSE IF AverageIsZero(st1.recentPrices)
     THEN [err |-> Panic, states |-> [s0 EXCEPT ![pair] = st1]]
     ELSE IF Deviates(price, st1.recentPrices, thr)
     THEN [err |-> ErrCircuitBreakerOpen, states |-> [s0 EXCEPT ![pair] = opened]]
     ELSE [err |-> ErrNil,
           states |-> [s0 EXCEPT ![pair] = recordPrice(closeHalfOpen(st1), price)]]

\* mutant: a recorded trade closes the pair
RecordTradeResultClosing(sts, pair, price, t) ==
  LET s0 == getOrCreateState(sts, pair)
  IN [s0 EXCEPT ![pair] = [recordPrice(s0[pair], price) EXCEPT
                             !.lastTradeTs = t, !.state = StateClosed, !.failures = 0]]

\* RecordTrade(pair, price) at time t
RecordTradeResult(sts, pair, price, t) ==
  LET s0 == getOrCreateState(sts, pair)
  IN [s0 EXCEPT ![pair] = [recordPrice(s0[pair], price) EXCEPT !.lastTradeTs = t]]

\* GetState
GetState(sts, pair) == IF pair \in DOMAIN sts THEN sts[pair].state ELSE StateClosed

\* a price that CheckPrice finds out of threshold: the pair is evaluated (it is
\* not inside its recovery window), has a history with a non-zero mean, and the
\* price deviates from the mean by more than the effective threshold
OutOfThreshold(sts, pair, price, t) ==
  /\ pair \in DOMAIN sts
  /\ ~(sts[pair].state = StateOpen /\ ~RecoveryDue(t - sts[pair].openedAt))
  /\ sts[pair].recentPrices # <<>>
  /\ ~AverageIsZero(sts[pair].recentPrices)
  /\ Deviates(price, sts[pair].recentPrices, effectiveThreshold(cautionMode, cautionUntil, t))

\* history: a pair that is closed with no failures and a non-empty price
\* history is where a run of out-of-threshold checks starts
Arm(st) ==
  [NoStreak EXCEPT !.armed = st.state = StateClosed /\ st.failures = 0
                              /\ st.recentPrices # <<>>]

\* NewCircuitBreaker(DefaultThreshold), its EnableCautionMode(60 s) included
CBInit ==
  /\ states = <<>>
  /\ threshold = DefaultThreshold
  /\ cbNow = TickStep
  /\ cautionMode = TRUE
  /\ cautionUntil = TickStep + DefaultCautionDuration
  /\ timers = {TickStep + DefaultCautionDuration}
  /\ cbRet = NoCheck
  /\ streak = [p \in Pairs |-> NoStreak]
  /\ persistCallback = NoCallback
  /\ persisted = NoPersist

EnableCautionMode(duration) ==
  /\ Cardinality(timers \cup {cbNow + duration}) <= MaxTimers
  /\ cautionMode' = TRUE
  /\ cautionUntil' = cbNow + duration
  /\ timers' = timers \cup {cbNow + duration}
  /\ UNCHANGED <<states, threshold, cbNow, cbRet, streak, persistCallback, persisted>>

\* the callback of time.AfterFunc, run once its duration has elapsed
CautionTimerFires(at) ==
  /\ at \in timers
  /\ cbNow >= at
  /\ cautionMode' = FALSE
  /\ timers' = timers \ {at}
  /\ UNCHANGED <<states, threshold, cautionUntil, cbNow, cbRet, streak, persistCallback,
                 persisted>>

\* recordPrice's call of the persist callback: if cb.persistCallback != nil
\* { cb.persistCallback(state.pair, state) }, with seen the value read
persistedAfter(seen, recorded, sts, pair) ==
  IF recorded /\ seen # NoCallback
  THEN [fn |-> seen, pair |-> pair, state |-> sts[pair]]
  ELSE persisted

\* CheckPrice, its read of cb.persistCallback giving seen
CheckPriceSeeing(pair, price, seen) ==
  LET r == CheckPriceResult(states, pair, price, cbNow)
      out == OutOfThreshold(states, pair, price, cbNow)
      sk == streak[pair]
      n == sk.n + 1
  IN /\ states' = r.states
     /\ cbRet' = [err |-> r.err, pre |-> GetState(states, pair)]
     /\ streak' = [streak EXCEPT ![pair] =
                     IF sk.armed /\ out /\ sk.n < DefaultFailureLimit
                     THEN [armed |-> TRUE, n |-> n,
                           errs |-> sk.errs /\ r.err = ErrCircuitBreakerOpen,
                           at |-> IF n = DefaultFailureLimit THEN cbNow ELSE 0]
                     ELSE Arm(r.states[pair])]
     /\ persisted' = persistedAfter(seen, r.err = ErrNil, r.states, pair)
     /\ UNCHANGED <<threshold, cautionMode, cautionUntil, timers, cbNow, persistCallback>>

CheckPrice(pair, price) == CheckPriceSeeing(pair, price, persistCallback)

\* RecordTrade, its read of cb.persistCallback giving seen
RecordTradeSeeing(pair, price, seen) ==
  LET sts == RecordTradeResult(states, pair, price, cbNow)
  IN /\ states' = sts
     /\ streak' = [streak EXCEPT ![pair] = Arm(sts[pair])]
     /\ persisted' = persistedAfter(seen, TRUE, sts, pair)
     /\ UNCHANGED <<threshold, cautionMode, cautionUntil, timers, cbNow, cbRet,
                    persistCallback>>

RecordTrade(pair, price) == RecordTradeSeeing(pair, price, persistCallback)

\* time passes
CBTick ==
  /\ cbNow < MaxTicks * TickStep
  /\ cbNow' = cbNow + TickStep
  /\ UNCHANGED <<states, threshold, cautionMode, cautionUntil, timers, cbRet, streak,
                 persistCallback, persisted>>

(***************************************************************************)
(* Goroutines calling one breaker at once.  CheckPrice and RecordTrade     *)
(* take cb.mu.Lock(), GetState takes cb.mu.RLock(), each releasing it by   *)
(* defer when the call returns; the time.AfterFunc callback takes          *)
(* cb.mu.Lock(); SetPersistCallback takes no lock.                         *)
(***************************************************************************)
Callers == {1, 2}
TimerGoroutine == 3
Callback == "fn"
LockedCalls == {"CheckPrice", "RecordTrade", "GetState"}
NoCall == [name |-> "", price |-> 0]

LKInit ==
  /\ cbMu = 0
  /\ cbReaders = {}
  /\ lkPc = [t \in Callers |-> "idle"]
  /\ lkOp = [t \in Callers |-> NoCall]
  /\ timerPc = "idle"

\* a goroutine calls CheckPrice, RecordTrade or GetState and arrives at the lock
LKCall(t, name, price) ==
  /\ lkPc[t] = "idle"
  /\ lkPc' = [lkPc EXCEPT ![t] = "lock"]
  /\ lkOp' = [lkOp EXCEPT ![t] = [name |-> name, price |-> price]]
  /\ UNCHANGED <<cbVars, cbMu, cbReaders, timerPc>>

\* cb.mu.Lock(): nobody holds the lock for writing or reading
LKLock(t) ==
  /\ lkPc[t] = "lock"
  /\ lkOp[t].name \in {"CheckPrice", "RecordTrade"}
  /\ cbMu = 0 /\ cbReaders = {}
  /\ cbMu' = t
  /\ lkPc' = [lkPc EXCEPT ![t] = "body"]
  /\ UNCHANGED <<cbVars, cbReaders, lkOp, timerPc>>

\* cb.mu.RLock(): nobody holds the lock for writing
LKRLock(t) ==
  /\ lkPc[t] = "lock"
  /\ lkOp[t].name = "GetState"
  /\ cbMu = 0
  /\ cbReaders' = cbReaders \cup {t}
  /\ lkPc' = [lkPc EXCEPT ![t] = "body"]
  /\ UNCHANGED <<cbVars, cbMu, lkOp, timerPc>>

\* the values a read of cb.persistCallback can give: the field, or what a
\* SetPersistCallback running at the same time is writing (the two are not
\* ordered by any lock)
SeenCallbacks ==
  {persistCallback} \cup {Callback : t \in {u \in Callers : lkPc[u] = "write"}}

\* the body of CheckPrice or RecordTrade, and the deferred cb.mu.Unlock()
LKBody(t) ==
  /\ lkPc[t] = "body"
  /\ cbMu = t
  /\ \E seen \in SeenCallbacks :
       IF lkOp[t].name = "CheckPrice"
       THEN \E pair \in Pairs : CheckPriceSeeing(pair, lkOp[t].price, seen)
       ELSE \E pair \in Pairs : RecordTradeSeeing(pair, lkOp[t].price, seen)
  /\ cbMu' = 0
  /\ lkPc' = [lkPc EXCEPT ![t] = "idle"]
  /\ lkOp' = [lkOp EXCEPT ![t] = NoCall]
  /\ UNCHANGED <<cbReaders, timerPc>>

\* the body of GetState, and the deferred cb.mu.RUnlock()
LKGetState(t) ==
  /\ lkPc[t] = "body"
  /\ t \in cbReaders
  /\ cbReaders' = cbReaders \ {t}
  /\ lkPc' = [lkPc EXCEPT ![t] = "idle"]
  /\ lkOp' = [lkOp EXCEPT ![t] = NoCall]
  /\ UNCHANGED <<cbVars, cbMu, timerPc>>

\* a goroutine calls SetPersistCallback(fn): it arrives at the assignment
LKSetPersistCallback(t) ==
  /\ lkPc[t] = "idle"
  /\ persistCallback = NoCallback
  /\ lkPc' = [lkPc EXCEPT ![t] = "write"]
  /\ lkOp' = [lkOp EXCEPT ![t] = [name |-> "SetPersistCallback", price |-> 0]]
  /\ UNCHANGED <<cbVars, cbMu, cbReaders, timerPc>>

\* cb.persistCallback = fn
LKWriteCallback(t) ==
  /\ lkPc[t] = "write"
  /\ persistCallback' = Callback
  /\ lkPc' = [lkPc EXCEPT ![t] = "idle"]
  /\ lkOp' = [lkOp EXCEPT ![t] = NoCall]
  /\ UNCHANGED <<states, threshold, cautionMode, cautionUntil, timers, cbNow, cbRet,
                 streak, persisted, cbMu, cbReaders, timerPc>>

\* the time.AfterFunc callback starts once its duration has elapsed: cb.mu.Lock()
LKTimerLock ==
  /\ timerPc = "idle"
  /\ \E at \in timers : cbNow >= at
  /\ cbMu = 0 /\ cbReaders = {}
  /\ cbMu' = TimerGoroutine
  /\ timerPc' = "body"
  /\ UNCHANGED <<cbVars, cbReaders, lkPc, lkOp>>

\* cb.cautionMode = false, and the deferred cb.mu.Unlock()
LKTimerBody ==
  /\ timerPc = "body"
  /\ cbMu = TimerGoroutine
  /\ \E at \in timers : CautionTimerFires(at)
  /\ cbMu' = 0
  /\ timerPc' = "idle"
  /\ UNCHANGED <<cbReaders, lkPc, lkOp>>

LKTick == CBTick /\ UNCHANGED lkVars

(***************************************************************************)
(* The pathfinder (router.Pathfinder).  A decimal is held as the fraction  *)
(* num / den; Mul is exact, as in the decimal library, and Div rounds half *)
(* away from zero to DivisionPrecision places.  Edge costs are held in     *)
(* 1 / CostScale.                                                          *)
(***************************************************************************)
MaxHops == 3
CostScale == 10000               \* fees are in basis points: 1 = 10000 bps
MaxFloat64 == 1000000000         \* stands for math.MaxFloat64, above every cost
DivisionPrecision == 2           \* decimal.DivisionPrecision, scaled down from 16
FeeStep == CostScale \div 2       \* trading fees are multiples of FeeStep bps
MaxLiquidity == 2                \* pools, and offers, of a generated snapshot

ErrNoRoute == "no route found"
ErrInsufficientLiquidity == "insufficient liquidity"

Dec(n, d) == [num |-> n, den |-> d]
DecInt(n) == Dec(n, 1)
DecMul(a, b) == Dec(a.num * b.num, a.den * b.den)
DecEq(a, b) == a.num * b.den = b.num * a.den
DecLess(a, b) == a.num * b.den < b.num * a.den

RECURSIVE Pow10(_)
Pow10(n) == IF n = 0 THEN 1 ELSE 10 * Pow10(n - 1)

\* n / d for n >= 0, d > 0, rounded half away from zero to DivisionPrecision places
DivRound(n, d) ==
  Dec((2 * n * Pow10(DivisionPrecision) + d) \div (2 * d), Pow10(DivisionPrecision))

\* Asset.String
String(a) == IF a.Issuer = "" THEN a.Currency ELSE a.Currency \o "." \o a.Issuer

Asset(c, i) == [Currency |-> c, Issuer |-> i]
IssuerA == "rvYAfWj5gh67oV6fW32ZzP3Aw4Eubs59B"
IssuerB == "rN7n7otQDd6FczFgLdSqtcsAUxDkw6fzRH"
XRP == Asset("XRP", "")
USD == Asset("USD", IssuerA)
EUR == Asset("EUR", IssuerB)
BTC == Asset("BTC", IssuerA)
JPY == Asset("JPY", IssuerB)
Assets == {XRP, USD, EUR, BTC, JPY}

AMMPool(a1, a2, r1, r2, fee) ==
  [Asset1 |-> a1, Asset2 |-> a2, Asset1Reserve |-> r1, Asset2Reserve |-> r2,
   TradingFeeBps |-> fee]
Offer(pays, gets, q) == [TakerPays |-> pays, TakerGets |-> gets, Quality |-> q]

\* buildGraph: the edges in the order they are appended, pools first
PoolEdges(pool, i) ==
  << [from |-> String(pool.Asset1), to |-> String(pool.Asset2),
      cost |-> pool.TradingFeeBps, pool |-> i, offer |-> 0],
     [from |-> String(pool.Asset2), to |-> String(pool.Asset1),
      cost |-> pool.TradingFeeBps, pool |-> i, offer |-> 0] >>

\* 1 - weight for an offer, weight = Quality
OfferCost(offer) == CostScale - (offer.Quality.num * CostScale) \div offer.Quality.den

OfferEdges(offer, i) ==
  << [from |-> String(offer.TakerPays), to |-> String(offer.TakerGets),
      cost |-> OfferCost(offer), pool |-> 0, offer |-> i] >>

RECURSIVE AllPoolEdges(_, _)
AllPoolEdges(pools, i) ==
  IF i > Len(pools) THEN <<>> ELSE PoolEdges(pools[i], i) \o AllPoolEdges(pools, i + 1)

RECURSIVE AllOfferEdges(_, _)
AllOfferEdges(offers, i) ==
  IF i > Len(offers) THEN <<>> ELSE OfferEdges(offers[i], i) \o AllOfferEdges(offers, i + 1)

buildGraph(pools, offers) ==
  LET edges == AllPoolEdges(pools, 1) \o AllOfferEdges(offers, 1)
      keys == {edges[i].from : i \in DOMAIN edges}
  IN [k \in keys |-> SelectSeq(edges, LAMBDA e : e.from = k)]

\* container/heap on priorityQueue; Less compares the costs
Swap(pq, i, j) == [pq EXCEPT ![i] = pq[j], ![j] = pq[i]]

RECURSIVE heapUp(_, _)
heapUp(pq, j) ==
  LET i == j \div 2 IN
  IF i < 1 \/ ~(pq[j].cost < pq[i].cost) THEN pq
  ELSE heapUp(Swap(pq, i, j), i)

RECURSIVE heapDown(_, _, _)
heapDown(pq, i, n) ==
  LET j1 == 2 * i
      j == IF j1 + 1 <= n /\ pq[j1 + 1].cost < pq[j1].cost THEN j1 + 1 ELSE j1
  IN IF j1 > n \/ ~(pq[j].cost < pq[i].cost) THEN pq
     ELSE heapDown(Swap(pq, i, j), j, n)

heapPush(pq, x) == heapUp(Append(pq, x), Len(pq) + 1)

\* heap.Pop: the node popped and the queue left
heapPop(pq) ==
  LET n == Len(pq) - 1
      h == heapDown(Swap(pq, 1, n + 1), 1, n)
  IN [node |-> h[n + 1], pq |-> SubSeq(h, 1, n)]

\* dist[k] of a Go map: the zero decimal for a key that is not in the map
MapGet(d, k) == IF k \in DOMAIN d THEN d[k] ELSE 0
MapSet(d, k, v) == [x \in DOMAIN d \cup {k} |-> IF x = k THEN v ELSE d[x]]

\* the body of the loop over graph[current.asset]
RECURSIVE relaxEdges(_, _, _, _)
relaxEdges(st, current, edges, i) ==
  IF i > Len(edges) THEN st
  ELSE LET e == edges[i]
           newCost == current.cost + e.cost
       IN IF e.to \in st.visited \/ ~(newCost < MapGet(st.dist, e.to))
          THEN relaxEdges(st, current, edges, i + 1)
          ELSE relaxEdges([st EXCEPT !.dist = MapSet(st.dist, e.to, newCost),
                                     !.prev = MapSet(st.prev, e.to, current.asset),
                                     !.pq = heapPush(st.pq, [asset |-> e.to, cost |-> newCost])],
                          current, edges, i + 1)

\* for pq.Len() > 0 { ... }
RECURSIVE dijkstraLoop(_, _, _)
dijkstraLoop(st, graph, end) ==
  IF st.pq = <<>> THEN st
  ELSE LET p == heapPop(st.pq)
           current == p.node
           st1 == [st EXCEPT !.pq = p.pq]
           st2 == [st1 EXCEPT !.visited = @ \cup {current.asset}]
       IN IF current.asset \in st.visited THEN dijkstraLoop(st1, graph, end)
          ELSE IF current.asset = end THEN st2
          ELSE dijkstraLoop(
                 relaxEdges(st2, current,
                            IF current.asset \in DOMAIN graph THEN graph[current.asset] ELSE <<>>,
                            1),
                 graph, end)

\* for at := end; at != ""; at = prev[at] { path = append([]string{at}, path...); ... }
RECURSIVE walkBack(_, _, _, _)
walkBack(prev, at, start, path) ==
  IF at = "" THEN path
  ELSE IF at = start THEN <<at>> \o path
  ELSE walkBack(prev, IF at \in DOMAIN prev THEN prev[at] ELSE "", start, <<at>> \o path)

\* dijkstra: the path, <<>> standing for the nil path
dijkstra(graph, start, end) ==
  LET st0 == [dist |-> MapSet([k \in DOMAIN graph |-> MaxFloat64], start, 0),
              prev |-> <<>>,
              visited |-> {},
              pq |-> heapPush(<<>>, [asset |-> start, cost |-> 0])]
      st == dijkstraLoop(st0, graph, end)
  IN IF end \notin DOMAIN st.prev /\ start # end THEN <<>>
     ELSE walkBack(st.prev, end, start, <<>>)

\* calculateAMMOutput: amountIn * m * reserveOut / (reserveIn + amountIn * m),
\* m = 1 - fee / 10000, with the one rounding of the final Div
\* mutant: the fee is what the trader keeps
feeMultiplierInverted(pool) == pool.TradingFeeBps \div FeeStep
\* 1 - TradingFeeBps / 10000, in units of FeeStep bps
feeMultiplier(pool) == (CostScale - pool.TradingFeeBps) \div FeeStep

\* numerator and denominator of the quotient, both times
\* amountIn.den * CostScale / FeeStep
ammNumerator(pool, amountIn, asset1ToAsset2) ==
  LET reserveOut == IF asset1ToAsset2 THEN pool.Asset2Reserve ELSE pool.Asset1Reserve
  IN amountIn.num * feeMultiplier(pool) * reserveOut
ammDenominator(pool, amountIn, asset1ToAsset2) ==
  LET reserveIn == IF asset1ToAsset2 THEN pool.Asset1Reserve ELSE pool.Asset2Reserve
  IN reserveIn * (CostScale \div FeeStep) * amountIn.den + amountIn.num * feeMultiplier(pool)

calculateAMMOutput(pool, amountIn, asset1ToAsset2) ==
  DivRound(ammNumerator(pool, amountIn, asset1ToAsset2),
           ammDenominator(pool, amountIn, asset1ToAsset2))

\* findHop: the first pool joining the two assets, else the first offer; a
\* hop of type "" stands for nil
NoHop == [Type |-> "", In |-> XRP, Out |-> XRP, AmountIn |-> DecInt(0), AmountOut |-> DecInt(0)]

RECURSIVE findOfferHop(_, _, _, _, _)
findOfferHop(offers, i, from, to, amountIn) ==
  IF i > Len(offers) THEN NoHop
  ELSE IF String(offers[i].TakerPays) = from /\ String(offers[i].TakerGets) = to
  THEN [Type |-> "orderbook", In |-> offers[i].TakerPays, Out |-> offers[i].TakerGets,
        AmountIn |-> amountIn, AmountOut |-> DecMul(amountIn, offers[i].Quality)]
  ELSE findOfferHop(offers, i + 1, from, to, amountIn)

RECURSIVE findPoolHop(_, _, _, _, _, _)
findPoolHop(pools, offers, i, from, to, amountIn) ==
  IF i > Len(pools) THEN findOfferHop(offers, 1, from, to, amountIn)
  ELSE IF String(pools[i].Asset1) = from /\ String(pools[i].Asset2) = to
  THEN [Type |-> "amm", In |-> pools[i].Asset1, Out |-> pools[i].Asset2,
        AmountIn |-> amountIn, AmountOut |-> calculateAMMOutput(pools[i], amountIn, TRUE)]
  ELSE IF String(pools[i].Asset2) = from /\ String(pools[i].Asset1) = to
  THEN [Type |-> "amm", In |-> pools[i].Asset2, Out |-> pools[i].Asset1,
        AmountIn |-> amountIn, AmountOut |-> calculateAMMOutput(pools[i], amountIn, FALSE)]
  ELSE findPoolHop(pools, offers, i + 1, from, to, amountIn)

findHop(pools, offers, from, to, amountIn) == findPoolHop(pools, offers, 1, from, to, amountIn)

\* mutant: every hop is given the amount of the hop before it
nextAmountUnchanged(hop) == hop.AmountIn

\* currentAmount = hop.AmountOut
nextAmount(hop) == hop.AmountOut

\* buildRoute: the hops, <<>> standing for the nil route
RECURSIVE buildHops(_, _, _, _, _, _)
buildHops(pools, offers, path, i, currentAmount, hops) ==
  IF i > Len(path) - 1 THEN [ok |-> TRUE, hops |-> hops]
  ELSE LET hop == findHop(pools, offers, path[i], path[i + 1], currentAmount)
       IN IF hop.Type = "" THEN [ok |-> FALSE, hops |-> <<>>]
          ELSE buildHops(pools, offers, path, i + 1, nextAmount(hop), Append(hops, hop))

buildRoute(pools, offers, path, amount) ==
  IF Len(path) < 2 THEN [ok |-> FALSE, hops |-> <<>>]
  ELSE buildHops(pools, offers, path, 1, amount, <<>>)

\* mutant: a path of any length is accepted
tooManyHopsNever(path) == FALSE

\* len(path) > MaxHops+1
tooManyHops(path) == Len(path) > MaxHops + 1

\* FindBestRoute(in, out, amount): the error and the route's hops
FindBestRoute(pools, offers, in, out, amount) ==
  LET path == dijkstra(buildGraph(pools, offers), String(in), String(out))
      route == buildRoute(pools, offers, path, amount)
  IN IF path = <<>> THEN [err |-> ErrNoRoute, hops |-> <<>>]
     ELSE IF tooManyHops(path) THEN [err |-> ErrNoRoute, hops |-> <<>>]
     ELSE IF ~route.ok THEN [err |-> ErrInsufficientLiquidity, hops |-> <<>>]
     ELSE [err |-> ErrNil, hops |-> route.hops]

(***************************************************************************)
(* Snapshots and requests of the pathfinder.                               *)
(***************************************************************************)
Half == Dec(1, 2)
OneAndHalf == Dec(3, 2)
TwoAndHalf == Dec(5, 2)

CandidatePools ==
  { AMMPool(XRP, USD, 10, 5, FeeStep), AMMPool(USD, EUR, 10, 10, 0),
    AMMPool(XRP, EUR, 5, 10, CostScale) }
CandidateOffers ==
  { Offer(XRP, USD, OneAndHalf), Offer(XRP, USD, Half), Offer(USD, XRP, OneAndHalf) }

SeqsUpTo(S, n) == UNION {[1..k -> S] : k \in 0..n}

\* a chain of four pools, and the same with a dearer direct pool
ChainPools ==
  << AMMPool(XRP, USD, 10, 10, 0), AMMPool(USD, EUR, 10, 10, 0),
     AMMPool(EUR, BTC, 10, 10, 0), AMMPool(BTC, JPY, 10, 10, 0) >>
ShortcutPools == ChainPools \o << AMMPool(XRP, JPY, 10, 10, FeeStep) >>

\* a free direct pool next to a detour that ends in an offer of quality 2.5
DetourPools == << AMMPool(XRP, USD, 10, 10, 0), AMMPool(XRP, EUR, 10, 10, FeeStep) >>
DetourOffers == << Offer(EUR, USD, TwoAndHalf) >>

Snapshots ==
  { [pools |-> ps, offers |-> os] :
      ps \in SeqsUpTo(CandidatePools, MaxLiquidity),
      os \in SeqsUpTo(CandidateOffers, MaxLiquidity) }
    \cup { [pools |-> ChainPools, offers |-> <<>>],
           [pools |-> ShortcutPools, offers |-> <<>>],
           [pools |-> DetourPools, offers |-> DetourOffers] }

RequestAssets == {XRP, USD} \X {XRP, USD, EUR, JPY}
Amounts == {DecInt(1), DecInt(10)}

NoRequest == [in |-> XRP, out |-> XRP, amount |-> DecInt(0), err |-> "", hops |-> <<>>]

\* NewPathfinder(pools, offers)
PFInit ==
  /\ \E s \in Snapshots : pfPools = s.pools /\ pfOffers = s.offers
  /\ pfCall = NoRequest

\* a call of FindBestRoute on the snapshot
FindRoute(in, out, amount) ==
  LET r == FindBestRoute(pfPools, pfOffers, in, out, amount) IN
  /\ pfCall' = [in |-> in, out |-> out, amount |-> amount, err |-> r.err, hops |-> r.hops]
  /\ UNCHANGED <<pfPools, pfOffers>>

(***************************************************************************)
(* The quote hash (router.ComputeQuoteHash and canonicalJSON, hash.go).    *)
(* Bytes are held as a string.  canonicalJSON marshals the hashInput,      *)
(* unmarshals it into a map[string]interface{} (every JSON number comes    *)
(* back as a float64), sorts the keys and marshals the map again.  The     *)
(* order in which the runtime iterates a map is not defined: it is an      *)
(* input of each evaluation.                                               *)
(***************************************************************************)
IntBits == 6                     \* width of int, scaled down from 64
MantissaBits == 4                \* significand of a float64, scaled down from 53
Uint32Bits == 3                  \* width of uint32, scaled down from 32
Uint16Bits == 2                  \* width of uint16, scaled down from 16
MaxEvaluations == 3              \* evaluations of the hash in a run
Processes == {1, 2}

RECURSIVE Pow2(_)
Pow2(n) == IF n = 0 THEN 1 ELSE 2 * Pow2(n - 1)
MaxInt == Pow2(IntBits - 1) - 1
MaxUint32 == Pow2(Uint32Bits) - 1
MaxUint16 == Pow2(Uint16Bits) - 1

\* float64(n) for an integer n >= 0: the nearest value with MantissaBits
\* significant bits, ties to even
RECURSIVE float64Exponent(_, _)
float64Exponent(n, e) ==
  IF n \div Pow2(e) < Pow2(MantissaBits) THEN e ELSE float64Exponent(n, e + 1)
ToFloat64(n) ==
  LET e == float64Exponent(n, 0)
      q == n \div Pow2(e)
      r == n % Pow2(e)
      up == 2 * r > Pow2(e) \/ (2 * r = Pow2(e) /\ q % 2 = 1)
  IN IF up THEN (q + 1) * Pow2(e) ELSE q * Pow2(e)

RECURSIVE Concat(_)
Concat(seq) == IF seq = <<>> THEN "" ELSE Head(seq) \o Concat(Tail(seq))

\* Decimal.String: the digits of the value, trailing zeros of the fraction
\* trimmed, so that 1.5 and 1.50 print alike
RECURSIVE fractionalPart(_, _)
fractionalPart(r, den) ==
  IF r = 0 THEN <<>>
  ELSE <<DigitChars[(10 * r) \div den + 1]>> \o fractionalPart((10 * r) % den, den)
DecString(d) ==
  LET abs == Abs(d.num)
      frac == fractionalPart(abs % d.den, d.den)
      number == Concat(FormatInt(abs \div d.den))
                  \o (IF frac = <<>> THEN "" ELSE "." \o Concat(frac))
  IN IF d.num < 0 THEN "-" \o number ELSE number

QuoteRequest(in, out, amount) == [In |-> in, Out |-> out, Amount |-> amount]
Fees(routerBps, tradingFees, estOutFee) ==
  [RouterBps |-> routerBps, TradingFees |-> tradingFees, EstOutFee |-> estOutFee]

\* the hashInput built by ComputeQuoteHash, by JSON key
hashInput(req, fees, ledgerIndex, ttl) ==
  [in |-> String(req.In),
   out |-> String(req.Out),
   amount |-> DecString(req.Amount),
   router_bps |-> fees.RouterBps,
   trading_fees |-> DecString(fees.TradingFees),
   est_out_fee |-> DecString(fees.EstOutFee),
   ledger_index |-> ledgerIndex,
   ttl |-> ttl]

\* the JSON keys, in the byte order sort.Strings gives them
KeyNames ==
  <<"amount", "est_out_fee", "in", "ledger_index", "out", "router_bps", "trading_fees", "ttl">>
NumberKeys == {"ledger_index", "router_bps", "ttl"}
sortStrings(keys) == SelectSeq(KeyNames, LAMBDA k : k \in Range(keys))

\* json.Marshal(v) followed by json.Unmarshal(data, &obj)
unmarshalObject(input) ==
  [k \in Range(KeyNames) |->
     IF k \in NumberKeys THEN [number |-> TRUE, v |-> ToFloat64(input[k])]
     ELSE [number |-> FALSE, v |-> input[k]]]

\* encoding/json on a string of letters, digits and dots, and on a float64
\* that holds an integer below 1e21
jsonString(s) == "\"" \o s \o "\""
jsonValue(x) == IF x.number THEN Concat(FormatInt(x.v)) ELSE jsonString(x.v)
RECURSIVE jsonMembers(_, _)
jsonMembers(m, keys) ==
  IF keys = <<>> THEN ""
  ELSE jsonString(Head(keys)) \o ":" \o jsonValue(m[Head(keys)])
         \o (IF Len(keys) > 1 THEN "," ELSE "") \o jsonMembers(m, Tail(keys))

jsonMapKeysAsIterated(iter) == iter
\* encoding/json takes the keys of a map as the runtime iterates them and sorts them
jsonMapKeys(iter) == sortStrings(iter)
marshalMap(m, iter) == "{" \o jsonMembers(m, jsonMapKeys(iter)) \o "}"

\* iter1: the order of `for k := range obj`; iter2: the order json.Marshal
\* meets the keys of `sorted`
canonicalJSON(input, iter1, iter2) ==
  LET obj == unmarshalObject(input)
      keys == sortStrings(iter1)
      sorted == [k \in Range(keys) |-> obj[k]]
  IN marshalMap(sorted, iter2)

\* blake2b.Sum256, taken as collision-free: the digest stands for its input
Sum256(bytes) == <<"blake2b-256", bytes>>

ComputeQuoteHash(req, fees, ledgerIndex, ttl, iter1, iter2) ==
  Sum256(canonicalJSON(hashInput(req, fees, ledgerIndex, ttl), iter1, iter2))

Reverse(seq) == [i \in 1..Len(seq) |-> seq[Len(seq) + 1 - i]]
IterationOrders == {KeyNames, Tail(KeyNames) \o <<Head(KeyNames)>>}

HashRequests ==
  {QuoteRequest(XRP, USD, a) : a \in {Dec(3, 2), Dec(15, 10)}}
    \cup {QuoteRequest(USD, XRP, DecInt(10))}
HashFees ==
  {Fees(b, Dec(3, 10), f) : b \in {1, Pow2(MantissaBits), MaxInt},
                            f \in {DecInt(0), Dec(1, 10)}}
LedgerIndexes == {MaxUint32}
HashTTLs == {MaxUint16}

NoEvaluation ==
  [req |-> QuoteRequest(XRP, XRP, DecInt(0)), fees |-> Fees(0, DecInt(0), DecInt(0)),
   ledgerIndex |-> 0, ttl |-> 0, hash |-> <<>>, process |-> 0]

HSInit ==
  /\ hsFirst = NoEvaluation
  /\ hsLast = NoEvaluation
  /\ hsCount = 0

\* one evaluation of ComputeQuoteHash by a process
EvaluateHash(p, req, fees, ledgerIndex, ttl, iter1, iter2) ==
  LET ev == [req |-> req, fees |-> fees, ledgerIndex |-> ledgerIndex, ttl |-> ttl,
             hash |-> ComputeQuoteHash(req, fees, ledgerIndex, ttl, iter1, iter2),
             process |-> p]
  IN /\ hsCount < MaxEvaluations
     /\ hsCount' = hsCount + 1
     /\ hsFirst' = IF hsCount = 0 THEN ev ELSE hsFirst
     /\ hsLast' = ev

(***************************************************************************)
(* The validator (router.Validator) and the quote engine                   *)
(* (router.QuoteEngine): validation, pathfinding, the circuit-breaker      *)
(* check on the route's price, hashing.                                    *)
(***************************************************************************)
MaxAmount == 20                  \* validator.MaxAmount, scaled down from 1e18
RouterBps == 20                  \* the routerBps the engine is built with
QuoteTTL == 3                    \* uint16(100), scaled down with uint16

ErrInvalidAmount == "invalid amount"
ErrAmountTooLarge == "amount too large"
ErrInvalidAsset == "invalid asset format"
ErrSameAssets == "input and output assets cannot be the same"
ErrInvalidAddress == "invalid XRPL address"

\* the strings, among those a request of the model carries, that
\* currencyRegex and xrplAddressRegex match
MatchesCurrencyRegex(currency) == currency \in {"USD", "EUR", "BTC", "JPY"}
MatchesAddressRegex(address) == address \in {IssuerA, IssuerB}

\* strings.TrimSpace, on the strings a request of the model carries
Padded(address) == " " \o address \o " "
TrimSpace(address) ==
  IF \E a \in {IssuerA, IssuerB} : address = Padded(a)
  THEN CHOOSE a \in {IssuerA, IssuerB} : address = Padded(a)
  ELSE address

IsValidXRPLAddress(address) ==
  address # "" /\ MatchesAddressRegex(TrimSpace(address))

ValidateAsset(asset) ==
  IF asset.Currency = "" THEN ErrInvalidAsset
  ELSE IF asset.Currency = "XRP"
  THEN (IF asset.Issuer # "" THEN ErrInvalidAsset ELSE ErrNil)
  ELSE IF ~MatchesCurrencyRegex(asset.Currency) THEN ErrInvalidAsset
  ELSE IF asset.Issuer = "" THEN ErrInvalidAsset
  ELSE IF ~IsValidXRPLAddress(asset.Issuer) THEN ErrInvalidAddress
  ELSE ErrNil

\* mutant: the assets are validated before the amount
ValidateQuoteRequestAssetsFirst(req) ==
  IF ValidateAsset(req.In) # ErrNil THEN ValidateAsset(req.In)
  ELSE IF ValidateAsset(req.Out) # ErrNil THEN ValidateAsset(req.Out)
  ELSE IF String(req.In) = String(req.Out) THEN ErrSameAssets
  ELSE IF ~DecLess(DecInt(0), req.Amount) THEN ErrInvalidAmount
  ELSE IF DecLess(DecInt(MaxAmount), req.Amount) THEN ErrAmountTooLarge
  ELSE ErrNil

ValidateQuoteRequest(req) ==
  IF ~DecLess(DecInt(0), req.Amount) THEN ErrInvalidAmount
  ELSE IF DecLess(DecInt(MaxAmount), req.Amount) THEN ErrAmountTooLarge
  ELSE IF ValidateAsset(req.In) # ErrNil THEN ValidateAsset(req.In)
  ELSE IF ValidateAsset(req.Out) # ErrNil THEN ValidateAsset(req.Out)
  ELSE IF String(req.In) = String(req.Out) THEN ErrSameAssets
  ELSE ErrNil

\* decimals in lowest terms, so that the products below stay small
RECURSIVE GCD(_, _)
GCD(a, b) == IF b = 0 THEN a ELSE GCD(b, a % b)
Reduced(d) ==
  LET g == GCD(Abs(d.num), d.den) IN Dec(d.num \div g, d.den \div g)
DecAdd(a, b) == Reduced(Dec(a.num * b.den + b.num * a.den, a.den * b.den))
DecSub(a, b) == Reduced(Dec(a.num * b.den - b.num * a.den, a.den * b.den))
\* a.Div(b) for b > 0: rounded half away from zero to DivisionPrecision places
DecDiv(a, b) ==
  LET q == Reduced(Dec(Abs(a.num) * b.den, a.den * b.num))
      r == DivRound(q.num, q.den)
  IN IF a.num < 0 THEN Dec(0 - r.num, r.den) ELSE r

\* calculateTotalFees: Div panics on an amm hop that is given nothing
feesPanic(hops) ==
  \E i \in DOMAIN hops : hops[i].Type = "amm" /\ hops[i].AmountIn.num = 0
RECURSIVE totalTradingFees(_)
totalTradingFees(hops) ==
  IF hops = <<>> THEN DecInt(0)
  ELSE LET hop == hops[Len(hops)]
           rest == totalTradingFees(SubSeq(hops, 1, Len(hops) - 1))
       IN IF hop.Type = "amm"
          THEN DecAdd(rest, DecDiv(DecSub(hop.AmountIn, hop.AmountOut), hop.AmountIn))
          ELSE rest
calculateTotalFees(hops) == Fees(0, totalTradingFees(hops), DecInt(0))

\* calculatePriceImpact(route, amountIn): |1 - finalAmount / amountIn|
calculatePriceImpact(hops, amountIn) ==
  IF Len(hops) = 0 THEN DecInt(0)
  ELSE IF amountIn.num = 0 THEN DecInt(0)
  ELSE LET impact == DecSub(DecInt(1), DecDiv(hops[Len(hops)].AmountOut, amountIn))
       IN Dec(Abs(impact.num), impact.den)

\* a price in the breaker's unit, 1 / 10^DivisionPrecision
priceTicks(price) == (price.num * Pow10(DivisionPrecision)) \div price.den

PhaseValidator == "validator"
PhasePathfinder == "pathfinder"
PhaseBreaker == "breaker"
PhaseHash == "hash"
Phases == <<PhaseValidator, PhasePathfinder, PhaseBreaker, PhaseHash>>

\* mutant: GenerateQuote returns after its first phase, whatever the phase returned
stopsAlways(err) == TRUE
\* if err != nil { return nil, err }
stops(err) == err # ErrNil

\* GenerateQuote(req, ledgerIndex) at time t: the error returned, the phases
\* invoked, the breaker's states left and the hash of the quote.  The call is
\* followed phase by phase, each operator taking what the phases before it
\* have computed.
\* lines 60-76: hashing, after the breaker has returned check
hashQuote(sts, req, totalFees, priceImpact, check, ledgerIndex, iter1, iter2) ==
  IF stops(check.err)
  THEN [err |-> check.err, trace |-> SubSeq(Phases, 1, 3), states |-> check.states,
        impact |-> DecInt(0), hash |-> <<>>]
  ELSE [err |-> ErrNil, trace |-> Phases, states |-> check.states,
        impact |-> priceImpact,
        hash |-> ComputeQuoteHash(req, totalFees, ledgerIndex, QuoteTTL, iter1, iter2)]

\* lines 45-58: fees, price and the breaker's check, on the route found
checkQuote(sts, req, hops, ledgerIndex, t, iter1, iter2) ==
  IF feesPanic(hops)
  THEN [err |-> Panic, trace |-> SubSeq(Phases, 1, 2), states |-> sts,
        impact |-> DecInt(0), hash |-> <<>>]
  ELSE hashQuote(sts, req,
                 [calculateTotalFees(hops) EXCEPT !.RouterBps = RouterBps],
                 calculatePriceImpact(hops, req.Amount),
                 CheckPriceResult(sts, String(req.In) \o "-" \o String(req.Out),
                                  priceTicks(DecDiv(hops[Len(hops)].AmountOut, req.Amount)), t),
                 ledgerIndex, iter1, iter2)

\* lines 40-43: what FindBestRoute returned
routeQuote(sts, req, route, ledgerIndex, t, iter1, iter2) ==
  IF stops(route.err)
  THEN [err |-> route.err, trace |-> SubSeq(Phases, 1, 2), states |-> sts,
        impact |-> DecInt(0), hash |-> <<>>]
  ELSE checkQuote(sts, req, route.hops, ledgerIndex, t, iter1, iter2)

GenerateQuoteResult(sts, pools, offers, req, ledgerIndex, t, iter1, iter2) ==
  IF stops(ValidateQuoteRequest(req))
  THEN [err |-> ValidateQuoteRequest(req), trace |-> SubSeq(Phases, 1, 1), states |-> sts,
        impact |-> DecInt(0), hash |-> <<>>]
  ELSE routeQuote(sts, req, FindBestRoute(pools, offers, req.In, req.Out, req.Amount),
                  ledgerIndex, t, iter1, iter2)

BadAsset == Asset("", "")
BadIssuer == Asset("USD", "rA")
BadCurrency == Asset("us", IssuerA)
NoIssuer == Asset("USD", "")
XRPWithIssuer == Asset("XRP", IssuerA)
PaddedIssuer == Asset("USD", Padded(IssuerA))
QuoteRequests ==
  {QuoteRequest(XRP, USD, DecInt(a)) : a \in {0 - 1, 0, 1, 10, MaxAmount + 1}}
    \cup {QuoteRequest(XRP, o, DecInt(10)) : o \in {XRP, JPY, BadIssuer, PaddedIssuer}}
    \cup {QuoteRequest(i, USD, DecInt(10)) :
             i \in {BadAsset, BadCurrency, NoIssuer, XRPWithIssuer, USD}}
    \cup {QuoteRequest(BadAsset, USD, DecInt(a)) : a \in {0, MaxAmount + 1}}
    \cup {QuoteRequest(BadIssuer, BadAsset, DecInt(10)),
          QuoteRequest(BadAsset, BadIssuer, DecInt(10)),
          QuoteRequest(BadAsset, BadAsset, DecInt(10))}
QuotePair == String(XRP) \o "-" \o String(USD)

\* the snapshots the engine's pathfinder is built on
QuoteSnapshots ==
  { [pools |-> <<AMMPool(XRP, USD, 10, 5, FeeStep)>>, offers |-> <<>>],
    [pools |-> <<>>, offers |-> <<Offer(XRP, USD, OneAndHalf)>>],
    [pools |-> <<>>, offers |-> <<Offer(XRP, USD, TwoAndHalf)>>],
    [pools |-> <<AMMPool(XRP, EUR, 5, 10, CostScale), AMMPool(EUR, USD, 10, 10, 0)>>,
     offers |-> <<>>] }

NoQuote ==
  [req |-> QuoteRequest(XRP, XRP, DecInt(0)), err |-> "", trace |-> <<>>,
   pre |-> <<>>, post |-> <<>>, impact |-> DecInt(0), hash |-> <<>>]

\* NewQuoteEngine(NewValidator(), NewPathfinder(pools, offers), breaker, kv, RouterBps)
QEInit ==
  /\ \E s \in QuoteSnapshots : pfPools = s.pools /\ pfOffers = s.offers
  /\ pfCall = NoRequest
  /\ qeCall = NoQuote

GenerateQuote(req, ledgerIndex, iter1, iter2) ==
  LET r == GenerateQuoteResult(states, pfPools, pfOffers, req, ledgerIndex, cbNow,
                               iter1, iter2)
  IN /\ states' = r.states
     /\ qeCall' = [req |-> req, err |-> r.err, trace |-> r.trace,
                   pre |-> states, post |-> r.states, impact |-> r.impact,
                   hash |-> r.hash]
     /\ persisted' = persistedAfter(persistCallback, r.err = ErrNil, r.states,
                                    String(req.In) \o "-" \o String(req.Out))
     /\ UNCHANGED <<threshold, cautionMode, cautionUntil, timers, cbNow, cbRet, streak,
                    persistCallback, pfVars>>

(***************************************************************************)
(* The router (router.Router): Quote calls the engine and hands one audit  *)
(* record to the store.  The store's LogAudit may fail.                    *)
(***************************************************************************)
MaxAuditLogs == 2       \* the audit log is followed up to MaxAuditLogs records

NoRouterCall == [req |-> QuoteRequest(XRP, XRP, DecInt(0)), err |-> "", hash |-> <<>>,
                 audits |-> <<>>]

\* NewRouter(quoteEngine, store) on an empty store
RTInit ==
  /\ auditLogs = <<>>
  /\ rtCall = NoRouterCall

\* lines 41-63: the audit record of a call that returned err
auditLog(req, err) ==
  [event |-> "quote_request",
   severity |-> IF err # ErrNil THEN "warn" ELSE "info",
   outcome |-> IF err # ErrNil THEN "rejected" ELSE "success",
   pair |-> String(req.In) \o "-" \o String(req.Out),
   error_code |-> IF err # ErrNil THEN err ELSE ""]

\* the records Quote hands to LogAudit: none when GenerateQuote panics (the
\* panic unwinds Quote before line 65), one otherwise
auditsOf(req, err) ==
  IF err \in {Panic} THEN <<>> ELSE <<auditLog(req, err)>>

\* Router.Quote(ctx, req, ledgerIndex); written tells whether the store's
\* LogAudit succeeds
Quote(req, ledgerIndex, iter1, iter2, written) ==
  /\ Len(auditLogs) < MaxAuditLogs
  /\ GenerateQuote(req, ledgerIndex, iter1, iter2)
  /\ rtCall' = [req |-> req, err |-> qeCall'.err, hash |-> qeCall'.hash,
                audits |-> auditsOf(req, qeCall'.err)]
  /\ auditLogs' = IF written THEN auditLogs \o rtCall'.audits ELSE auditLogs

\* the parts a specification does not exercise, as constructed
KVIdle == KVInit /\ maxBytes = SmallStore
PFIdle == pfPools = <<>> /\ pfOffers = <<>> /\ pfCall = NoRequest
HSIdle == HSInit
QEIdle == qeCall = NoQuote
CLIdle == CLInit
LKIdle == LKInit
RTIdle == RTInit
SWIdle == SWInit
APIIdle == APIInit

RLIdle ==
  /\ mu = 0
  /\ tpc = [t \in Threads |-> "idle"]
  /\ tloc = [t \in Threads |-> NoLocals]
  /\ tret = [t \in Threads |-> NoReturn]

InitKV == APIIdle /\ SWIdle /\ RTIdle /\ LKIdle /\ CLIdle /\ KVInit /\ RLIdle /\ CBInit /\ PFIdle /\ HSIdle /\ QEIdle

NextKV ==
  \/ \E c \in SetInputs : Set(c[1], c[2], c[3], c[4]) /\ UNCHANGED outsideKV
  \/ \E t \in ReadInputs : Get(t[1], t[2]) /\ UNCHANGED outsideKV
  \/ \E t \in ReadInputs : Delete(t[1], t[2]) /\ UNCHANGED outsideKV
  \/ \E p \in Keys \cup {""}, ttl \in TTLs : IncrementRateLimit(p, ttl) /\ UNCHANGED outsideKV
  \/ Cleanup /\ UNCHANGED outsideKV
  \/ Tick /\ UNCHANGED outsideKV

SpecKV == InitKV /\ [][NextKV]_vars

\* the store with threads closing it, one entry written with a ttl and the
\* clock, so that the cleanup has something to purge while it runs
InitCL == APIIdle /\ SWIdle /\ RTIdle /\ LKIdle /\ KVIdle /\ CLInit /\ RLIdle /\ CBInit /\ PFIdle /\ HSIdle /\ QEIdle

NextCL ==
  \/ \E t \in Closers : CloseCall(t) /\ UNCHANGED <<kvVars, outsideCL>>
  \/ \E t \in Closers : CloseSwap(t) /\ UNCHANGED <<kvVars, outsideCL>>
  \/ \E t \in Closers : CloseChannel(t) /\ UNCHANGED <<kvVars, outsideCL>>
  \/ LoopStop /\ UNCHANGED <<kvVars, outsideCL>>
  \/ Cleanup /\ UNCHANGED <<clVars, outsideCL>>
  \/ Set(NamespaceSystem, "a", <<"1">>, 1) /\ UNCHANGED <<clVars, outsideCL>>
  \/ Tick /\ UNCHANGED <<clVars, outsideCL>>

\* The scheduler runs every runnable goroutine eventually, so a caller that
\* has swapped reaches its close(s.stopCh).  A select with a ready case does
\* not block and chooses among the ready cases at random, so the stop case,
\* ready for ever once the channel is closed, is taken eventually.
SpecCL ==
  /\ InitCL
  /\ [][NextCL]_vars
  /\ \A t \in Closers : WF_vars(CloseChannel(t) /\ UNCHANGED <<kvVars, outsideCL>>)
  /\ WF_vars(LoopStop /\ UNCHANGED <<kvVars, outsideCL>>)

(***************************************************************************)
(* IncrementRateLimit called by NThreads threads at once on one partner.   *)
(* A call is s.mu.Lock(), the read of the entry, the write through         *)
(* setLocked, and the deferred s.mu.Unlock() with the return.              *)
(***************************************************************************)
\* the ttl of a call; MaxTime keeps every call within the ttl of the one before
RLTTLs == {0, MaxTime}

\* mutant: the lock excludes nobody
LockFreeAlways(m) == TRUE

\* sync.RWMutex.Lock proceeds when nobody holds the lock
LockFree(m) == m = 0

\* IncrementRateLimit is called: the thread arrives at s.mu.Lock()
RLCall(t, ttl) ==
  /\ tpc[t] = "idle"
  /\ tpc' = [tpc EXCEPT ![t] = "lock"]
  /\ tloc' = [tloc EXCEPT ![t] = [NoLocals EXCEPT !.ttl = ttl]]
  /\ UNCHANGED <<kvVars, outsideRL, mu, tret>>

\* s.mu.Lock()
RLLock(t) ==
  /\ tpc[t] = "lock"
  /\ LockFree(mu)
  /\ mu' = t
  /\ tpc' = [tpc EXCEPT ![t] = "read"]
  /\ UNCHANGED <<kvVars, outsideRL, tloc, tret>>

\* e, ok := s.data[fullKey]; the expiry test; strconv.ParseInt and count++
RLRead(t) ==
  LET fullKey == makeKey(NamespaceRateLimits, RLPartner)
      ok == fullKey \in DOMAIN data
      fresh == ~ok \/ Expired(data[fullKey], now)
  IN /\ tpc[t] = "read"
     /\ tloc' = [tloc EXCEPT ![t] = [ttl |-> tloc[t].ttl, ok |-> ok, fresh |-> fresh,
                     parsed |-> IF fresh THEN 0 ELSE ParseInt(data[fullKey].value)]]
     /\ tpc' = [tpc EXCEPT ![t] = "write"]
     /\ UNCHANGED <<kvVars, outsideRL, mu, tret>>

\* deleteEntryLocked and setLocked, the return, and the deferred s.mu.Unlock()
RLWrite(t) ==
  LET fullKey == makeKey(NamespaceRateLimits, RLPartner)
      loc == tloc[t]
      st1 == IF loc.fresh /\ loc.ok /\ fullKey \in DOMAIN data
             THEN deleteEntryLocked(Store, fullKey) ELSE Store
      count == IF loc.fresh THEN 1 ELSE loc.parsed + 1
      r == setLocked(st1, NamespaceRateLimits, RLPartner, FormatInt(count), loc.ttl)
      res == IF ~loc.fresh /\ loc.parsed < 0
             THEN [err |-> ErrInvalidCounter, count |-> 0, st |-> Store]
             ELSE [err |-> r.err, count |-> IF r.err = ErrNil THEN count ELSE 0, st |-> r.st]
  IN /\ tpc[t] = "write"
     /\ Install(res.st)
     /\ recency' = IF res.err = ErrNil THEN Touch(Restrict(recency, res.st.data), fullKey)
                   ELSE Restrict(recency, res.st.data)
     /\ tret' = [tret EXCEPT ![t] = [err |-> res.err, count |-> res.count]]
     /\ tpc' = [tpc EXCEPT ![t] = "done"]
     /\ mu' = IF mu = t THEN 0 ELSE mu
     /\ UNCHANGED <<maxBytes, now, tloc, outsideRL>>

RLTick == Tick /\ UNCHANGED <<rlVars, outsideRL>>

InitRL == APIIdle /\ SWIdle /\ RTIdle /\ LKIdle /\ CLIdle /\ KVInit /\ RLIdle /\ CBInit /\ PFIdle /\ HSIdle /\ QEIdle

NextRL ==
  \/ \E t \in Threads, ttl \in RLTTLs : RLCall(t, ttl)
  \/ \E t \in Threads : RLLock(t)
  \/ \E t \in Threads : RLRead(t)
  \/ \E t \in Threads : RLWrite(t)
  \/ RLTick

SpecRL == InitRL /\ [][NextRL]_vars

InitCB == APIIdle /\ SWIdle /\ RTIdle /\ LKIdle /\ CLIdle /\ KVIdle /\ RLIdle /\ CBInit /\ PFIdle /\ HSIdle /\ QEIdle

NextCB ==
  \/ \E pair \in Pairs, price \in Prices : CheckPrice(pair, price) /\ UNCHANGED outsideCB
  \/ \E pair \in Pairs, price \in Prices : RecordTrade(pair, price) /\ UNCHANGED outsideCB
  \/ \E d \in CautionDurations : EnableCautionMode(d) /\ UNCHANGED outsideCB
  \/ \E at \in timers : CautionTimerFires(at) /\ UNCHANGED outsideCB
  \/ CBTick /\ UNCHANGED outsideCB

SpecCB == InitCB /\ [][NextCB]_vars

\* the prices of the concurrent calls: all within threshold of one another
LKPrices == {100}

InitLK == APIIdle /\ SWIdle /\ RTIdle /\ CLIdle /\ KVIdle /\ RLIdle /\ CBInit /\ LKInit /\ PFIdle /\ HSIdle /\ QEIdle

NextLK ==
  \/ \E t \in Callers, name \in LockedCalls, price \in LKPrices :
       LKCall(t, name, price) /\ UNCHANGED outsideLK
  \/ \E t \in Callers : LKLock(t) /\ UNCHANGED outsideLK
  \/ \E t \in Callers : LKRLock(t) /\ UNCHANGED outsideLK
  \/ \E t \in Callers : LKBody(t) /\ UNCHANGED outsideLK
  \/ \E t \in Callers : LKGetState(t) /\ UNCHANGED outsideLK
  \/ \E t \in Callers : LKSetPersistCallback(t) /\ UNCHANGED outsideLK
  \/ \E t \in Callers : LKWriteCallback(t) /\ UNCHANGED outsideLK
  \/ LKTimerLock /\ UNCHANGED outsideLK
  \/ LKTimerBody /\ UNCHANGED outsideLK
  \/ LKTick /\ UNCHANGED outsideLK

SpecLK == InitLK /\ [][NextLK]_vars

InitPF == APIIdle /\ SWIdle /\ RTIdle /\ LKIdle /\ CLIdle /\ KVIdle /\ RLIdle /\ CBInit /\ PFInit /\ HSIdle /\ QEIdle

NextPF ==
  \E r \in RequestAssets, amount \in Amounts : FindRoute(r[1], r[2], amount) /\ UNCHANGED outsidePF

SpecPF == InitPF /\ [][NextPF]_vars

InitHS == APIIdle /\ SWIdle /\ RTIdle /\ LKIdle /\ CLIdle /\ KVIdle /\ RLIdle /\ CBInit /\ PFIdle /\ HSInit /\ QEIdle

NextHS ==
  \E p \in Processes, req \in HashRequests, fees \in HashFees,
     ledgerIndex \in LedgerIndexes, ttl \in HashTTLs,
     iter1 \in IterationOrders, iter2 \in IterationOrders :
    EvaluateHash(p, req, fees, ledgerIndex, ttl, iter1, iter2) /\ UNCHANGED outsideHS

SpecHS == InitHS /\ [][NextHS]_vars

InitQE == APIIdle /\ SWIdle /\ RTIdle /\ LKIdle /\ CLIdle /\ KVIdle /\ RLIdle /\ CBInit /\ HSIdle /\ QEInit

NextQE ==
  \/ \E req \in QuoteRequests, ledgerIndex \in LedgerIndexes, iter \in IterationOrders :
       GenerateQuote(req, ledgerIndex, iter, Reverse(iter)) /\ UNCHANGED outsideQE
  \/ \E at \in timers : CautionTimerFires(at) /\ UNCHANGED <<outsideQE, pfVars, qeVars>>
  \/ CBTick /\ UNCHANGED <<outsideQE, pfVars, qeVars>>

SpecQE == InitQE /\ [][NextQE]_vars

\* the requests the router is driven with: two that can be quoted, one without
\* a route, one with a malformed asset, one with a zero amount
RouterRequests ==
  {QuoteRequest(XRP, USD, DecInt(1)), QuoteRequest(XRP, USD, DecInt(10)),
   QuoteRequest(XRP, JPY, DecInt(10)), QuoteRequest(BadAsset, USD, DecInt(10)),
   QuoteRequest(XRP, USD, DecInt(0))}

InitRT == APIIdle /\ SWIdle /\ CLIdle /\ LKIdle /\ KVIdle /\ RLIdle /\ CBInit /\ HSIdle /\ QEInit /\ RTInit

NextRT ==
  \/ \E req \in RouterRequests, ledgerIndex \in LedgerIndexes, written \in BOOLEAN :
       \E iter \in IterationOrders :
         Quote(req, ledgerIndex, iter, Reverse(iter), written) /\ UNCHANGED outsideRT
  \/ \E at \in timers : CautionTimerFires(at) /\ UNCHANGED <<outsideRT, pfVars, qeVars, rtVars>>
  \/ CBTick /\ UNCHANGED <<outsideRT, pfVars, qeVars, rtVars>>

SpecRT == InitRT /\ [][NextRT]_vars

InitSW == APIIdle /\ RTIdle /\ LKIdle /\ CLIdle /\ KVInit /\ RLIdle /\ CBInit /\ PFIdle /\ HSIdle /\ QEIdle /\ SWInit

\* the rate limiter's increments, the writes of another namespace that compete
\* with the counters for room, lookups, cleanup and the clock
NextSW ==
  \/ \E p \in SWPartners, ttl \in SWTTLs : RateLimit(p, ttl) /\ UNCHANGED outsideSW
  \/ \E v \in Values : Set(NamespaceSystem, "a", v, 0) /\ UNCHANGED <<outsideSW, swVars>>
  \/ \E p \in SWPartners : Get(NamespaceRateLimits, p) /\ UNCHANGED <<outsideSW, swVars>>
  \/ Cleanup /\ UNCHANGED <<outsideSW, swVars>>
  \/ Tick /\ UNCHANGED <<outsideSW, swVars>>

SpecSW == InitSW /\ [][NextSW]_vars

\* the requests sent to the server: every choice of the authentication
\* headers, signed by the partner's key, by another key, or not at all
APIRequests ==
  LET unsigned == { [Method |-> "POST", Path |-> path, Body |-> "{}", PartnerId |-> p,
                     RequestId |-> id, Timestamp |-> ts, Signature |-> NoSignature] :
                      path \in {"/partner/v1/quote", "/partner/v1/health", "/partner/v1/x"},
                      p \in {"", "zz", "p1", "p2", "p3", "p9"},
                      id \in {"r1", "r2", "zz"},
                      ts \in {"", "x", "t1", "t2", "t3"} }
  IN UNION { { req,
               [req EXCEPT !.Signature = Sign("k1", req)],
               [req EXCEPT !.Signature = Sign("k2", req)],
               [req EXCEPT !.Signature = [Sign("k1", req) EXCEPT !.enc = "raw"]],
               [req EXCEPT !.Signature = Sign("k1", [req EXCEPT !.Body = "{x}"])] } :
             req \in unsigned }

InitAPI == SWIdle /\ RTIdle /\ LKIdle /\ CLIdle /\ KVIdle /\ RLIdle /\ CBInit /\ PFIdle /\ HSIdle /\ QEIdle /\ APIInit

NextAPI ==
  \E req \in APIRequests : ServeHTTP(req) /\ UNCHANGED outsideAPI

SpecAPI == InitAPI /\ [][NextAPI]_vars

(***************************************************************************)
(* Claims about the KV store.                                              *)
(***************************************************************************)
RECURSIVE SumSizes(_, _)
SumSizes(d, ks) ==
  IF ks = {} THEN 0
  ELSE LET k == CHOOSE x \in ks : TRUE IN d[k].size + SumSizes(d, ks \ {k})

LiveCount(namespace) ==
  Cardinality({k \in DOMAIN data : data[k].namespace = namespace /\ Live(data[k], now)})

\* position of a held key in the history of uses: 1 is the most recently used
Pos(r, fullKey) == CHOOSE i \in DOMAIN r : r[i] = fullKey

\* C1: in every reachable state of the store, for each configuration, the
\* byte counter currentBytes is >= 0.
C1_BytesNonNegative == currentBytes >= 0

\* C2: in every reachable state, currentBytes equals the sum of the recorded
\* sizes of the entries the store holds.
C2_BytesEqualSum == currentBytes = SumSizes(data, DOMAIN data)

\* C3: in every reachable state currentBytes <= maxBytes: an entry is inserted
\* only after eviction has made room for it.
C3_BytesWithinBudget == currentBytes <= maxBytes

\* a store that is full after an eviction made room for the entry inserted last
C3_Witness == evictions > 0 /\ currentBytes = maxBytes /\ lru # <<>>

\* The calls of the namespace-isolation scenario, from the current store:
\* Set(ns1,k,v1), Set(ns2,k,v2), Get(ns1,k), Get(ns2,k), Delete(ns1,k), Get(ns2,k).
IsolationRun(ns1, ns2, k, v1, v2, ttl1, ttl2) ==
  LET s1 == SetResult(Store, ns1, k, v1, ttl1)
      s2 == SetResult(s1.st, ns2, k, v2, ttl2)
      g1 == GetResult(s2.st, ns1, k)
      g2 == GetResult(g1.st, ns2, k)
      d1 == DeleteResult(g2.st, ns1, k)
      g3 == GetResult(d1.st, ns2, k)
  IN [bothSet |-> s1.err = ErrNil /\ s2.err = ErrNil,
      evicted |-> s2.st.evictions - s1.st.evictions,
      isolated |-> /\ g1.ok /\ g1.value = v1
                   /\ g2.ok /\ g2.value = v2
                   /\ d1.err = ErrNil
                   /\ g3.ok /\ g3.value = v2]

DistinctNamespaces == {ns \in Namespaces \X Namespaces : ns[1] # ns[2]}

\* C4 as claimed: for distinct namespaces ns1, ns2 and a key k, once Set(ns1,k,v1)
\* and Set(ns2,k,v2) have both succeeded, Get(ns1,k) returns v1, Get(ns2,k)
\* returns v2, and Delete(ns1,k) leaves Get(ns2,k) = v2.
C4_IsolationAlways ==
  \A ns \in DistinctNamespaces, k \in Keys, v1 \in Values, v2 \in Values,
     ttl1 \in TTLs, ttl2 \in TTLs :
    LET run == IsolationRun(ns[1], ns[2], k, v1, v2, ttl1, ttl2)
    IN run.bothSet => run.isolated

\* C4 amended: the same, provided the second Set evicts nothing (the store has
\* room for both entries).
C4_IsolationUnlessEvicted ==
  \A ns \in DistinctNamespaces, k \in Keys, v1 \in Values, v2 \in Values,
     ttl1 \in TTLs, ttl2 \in TTLs :
    LET run == IsolationRun(ns[1], ns[2], k, v1, v2, ttl1, ttl2)
    IN (run.bothSet /\ run.evicted = 0) => run.isolated

\* the same key held under both namespaces with different values, after both Sets
C4_Witness ==
  LET k1 == makeKey(NamespaceRateLimits, "a")
      k2 == makeKey(NamespaceSystem, "a")
  IN /\ k1 \in DOMAIN data /\ k2 \in DOMAIN data
     /\ lru = <<k2, k1>>
     /\ data[k1].value = <<"1">> /\ data[k2].value = Large

\* C5: in every reachable state the number of live keys of each fixed namespace
\* is at most the namespace's quota.
C5_QuotaRespected ==
  \A ns \in DOMAIN namespaceQuotas : LiveCount(ns) <= namespaceQuotas[ns]

\* the entries a write discards are less recently used than every entry it
\* keeps, the entry written (fullKey w) aside
LRUVictims(st, w) ==
  \A g \in (DOMAIN data \ DOMAIN st.data) \ {w} :
    \A k \in (DOMAIN data \cap DOMAIN st.data) \ {w} :
      Pos(recency, k) < Pos(recency, g)

\* C7: whenever a Set (or the write of IncrementRateLimit) frees space, the
\* entries it discards are the least recently used ones, a use being a
\* successful write or a Get hit.
C7_LRUOrder ==
  /\ \A c \in SetInputs :
       LRUVictims(SetResult(Store, c[1], c[2], c[3], c[4]).st, makeKey(c[1], c[2]))
  /\ \A p \in Keys, ttl \in TTLs :
       LRUVictims(IncrementResult(Store, p, ttl).st, makeKey(NamespaceRateLimits, p))

\* C6: the calls of IncrementRateLimit that have returned have returned
\* 1..n, each value once and without error, n being their number; with the
\* lock free the stored counter is n.
C6_RateLimitAtomic ==
  LET done == {t \in Threads : tpc[t] = "done"}
      n == Cardinality(done)
      fullKey == makeKey(NamespaceRateLimits, RLPartner)
  IN /\ {tret[t].count : t \in done} = 1..n
     /\ \A t \in done : tret[t].err = ErrNil
     /\ (n > 0 /\ mu = 0) => /\ fullKey \in DOMAIN data
                             /\ data[fullKey].value = FormatInt(n)

\* every thread has called and returned, and the counter is NThreads
C6_Witness ==
  /\ \A t \in Threads : tpc[t] = "done"
  /\ data[makeKey(NamespaceRateLimits, RLPartner)].value = FormatInt(NThreads)

\* C34: a Set that returns an error leaves the store as it was: the map, the
\* LRU list, currentBytes and the evictions counter are unchanged, so nothing
\* is evicted and the key's previous entry is still held and tracked.
C34_FailedSetChangesNothing ==
  \A c \in SetInputs :
    LET r == SetResult(Store, c[1], c[2], c[3], c[4]) IN
    r.err # ErrNil =>
      /\ r.st.data = data
      /\ r.st.lru = lru
      /\ r.st.bytes = currentBytes
      /\ r.st.evictions = evictions

\* C35: a Set on a key that the store holds is never rejected with
\* NamespaceQuota, whatever the number of live keys of its namespace.
C35_ReplaceIgnoresQuota ==
  \A c \in SetInputs :
    makeKey(c[1], c[2]) \in DOMAIN data =>
      SetResult(Store, c[1], c[2], c[3], c[4]).err # ErrNamespaceQuota

\* more than the ttl of the partner's last successful increment has passed
\* since that increment
WindowOver(p) == window[p].ttl > 0 /\ now > window[p].at + window[p].ttl

\* C39 as stated: every successful IncrementRateLimit(p, ttl) sets the
\* counter's expiry to ttl after the call, and once p has been counted the
\* counter returns to 1 only when more than the ttl of the last successful
\* increment has passed since that increment.
C39_SlidingWindow ==
  \A p \in SWPartners, ttl \in SWTTLs :
    LET r == IncrementResult(Store, p, ttl) IN
    r.err = ErrNil =>
      /\ r.st.data[makeKey(NamespaceRateLimits, p)].expiresAt = now + ttl
      /\ (r.count = 1 /\ window[p].at # 0) => WindowOver(p)

\* C39 as the code has it: the same for a counter whose entry the store still
\* holds; a held counter inside the window of its last increment returns one
\* more than that increment did, however long ago the window started.  A
\* counter evicted to make room for another entry starts again at 1.
C39_SlidingWindowWhileHeld ==
  \A p \in SWPartners, ttl \in SWTTLs :
    LET r == IncrementResult(Store, p, ttl)
        fullKey == makeKey(NamespaceRateLimits, p)
    IN r.err = ErrNil =>
         /\ r.st.data[fullKey].expiresAt = now + ttl
         /\ (r.count = 1 /\ window[p].at # 0 /\ fullKey \in DOMAIN data) => WindowOver(p)
         /\ (fullKey \in DOMAIN data /\ ~WindowOver(p)) => r.count = window[p].count + 1

\* a counter still inside the window of its second increment although more
\* than the ttl has passed since its first
C39_Witness ==
  \E p \in SWPartners :
    /\ window[p].count = 2
    /\ now > window[p].start + window[p].ttl
    /\ ~WindowOver(p)
    /\ makeKey(NamespaceRateLimits, p) \in DOMAIN data
    /\ IncrementResult(Store, p, window[p].ttl).count = 3

\* the entries written with a ttl whose expiry time has passed
PastExpiry ==
  {fullKey \in DOMAIN data :
     data[fullKey].expiresAt # 0 /\ now > data[fullKey].expiresAt}

\* C23: an entry written with ttl > 0 is not returned by Get once its expiry
\* time has passed, whether or not cleanup has run: the Get that finds it
\* returns absent, removes the entry from the map and the LRU list, counts a
\* miss and no hit, and takes the entry's size off currentBytes.
C23_LazyExpiration ==
  \A t \in ValidTargets :
    LET fullKey == makeKey(t[1], t[2])
        g == GetResult(Store, t[1], t[2])
    IN fullKey \in PastExpiry =>
         /\ ~g.ok /\ g.value = <<>>
         /\ fullKey \notin DOMAIN g.st.data
         /\ fullKey \notin Range(g.st.lru)
         /\ g.st.misses = misses + 1
         /\ g.st.hits = hits
         /\ g.st.bytes = currentBytes - data[fullKey].size
         /\ \A other \in DOMAIN data \ {fullKey} :
              other \in DOMAIN g.st.data /\ g.st.data[other] = data[other]

\* an entry past its expiry that cleanup has not removed, next to a live one
C23_Witness ==
  /\ PastExpiry # {}
  /\ DOMAIN data \ PastExpiry # {}
  /\ \A fullKey \in PastExpiry : fullKey \in Range(lru)

\* the keys of a namespace for which a Get issued now returns a value
Gettable(namespace) ==
  {key \in {t[2] : t \in {x \in ValidTargets : x[1] = namespace}} :
     GetResult(Store, namespace, key).ok}

\* C29: at every instant Keys(ns) is exactly the set of the keys of ns for
\* which a Get issued at that instant returns a value, and Stats counts the
\* same keys, in total and by namespace: an entry is live for Keys and Stats
\* exactly when it is live for Get, the instant now = expiresAt included.
C29_KeysAgreeWithGet ==
  /\ \A ns \in Namespaces : KeysResult(Store, ns) = Gettable(ns)
  /\ StatsResult(Store).TotalKeys =
       Cardinality({t \in ValidTargets : GetResult(Store, t[1], t[2]).ok})
  /\ \A ns \in DOMAIN StatsResult(Store).NamespaceCounts :
       StatsResult(Store).NamespaceCounts[ns] = Cardinality(Gettable(ns))

\* at most one caller is on its way to close(s.stopCh), and the channel is
\* open then; every call that has returned returned nil
CloseSafe ==
  /\ \A t \in Closers : closeRet[t] \in {"", ErrNil}
  /\ \A t \in Closers : closePc[t] = "done" => closeRet[t] = ErrNil /\ stopped
  /\ Cardinality({t \in Closers : closePc[t] = "close"}) <= 1
  /\ (\E t \in Closers : closePc[t] = "close") => stopCh = "open"
  /\ stopCh = "closed" => stopped

\* C24: Close may be called any number of times, one after the other or at
\* once: the channel is closed once and never closed again (which would
\* panic), every call returns nil, and once a first Close has swapped the flag
\* cleanupLoop eventually returns.
C24_CloseIdempotent ==
  /\ []CloseSafe
  /\ [][stopCh = "closed" => stopCh' = "closed"]_vars
  /\ stopped ~> (loopPc = "returned")

\* every thread has called Close MaxCloses times and the loop has returned
C24_Witness ==
  /\ \A t \in Closers : closeCalls[t] = MaxCloses /\ closePc[t] = "done"
  /\ loopPc = "returned"

(***************************************************************************)
(* Claims about the API server.                                            *)
(***************************************************************************)
\* a request that passes every check of the auth middleware: well-formed
\* headers, a fresh timestamp, a new request id, an active partner with an
\* active key, and a signature of the request by that key
Authentic(req) ==
  /\ req.PartnerId \in UUIDs /\ req.RequestId \in UUIDs
  /\ req.Timestamp \in DOMAIN Timestamps
  /\ drift(req.Timestamp) <= MaxDrift /\ drift(req.Timestamp) >= 0 - MaxDrift
  /\ <<req.RequestId, req.PartnerId>> \notin apiRequestIDs
  /\ req.PartnerId \in DOMAIN APIPartners
  /\ APIPartners[req.PartnerId].Status = "active"
  /\ req.PartnerId \in DOMAIN APIKeys
  /\ req.Signature.enc = "base64"
  /\ Verify(APIKeys[req.PartnerId], Canonical(req), req.Signature)

\* the partner's counter, incremented for this request, stays within the
\* limit of the partner's plan
UnderLimit(req) ==
  LET r == IncrementResult(Store, req.PartnerId, RateLimitTTL)
  IN r.err = ErrNil => r.count <= getLimitForPlan(APIPartners[req.PartnerId].Plan)

\* C40: on the /partner/ routes authentication runs before rate limiting: a
\* correctly signed request of an active partner that is under its limit is
\* handed to the endpoint handler of its path and is not answered with
\* "missing partner context".
C40_AuthBeforeRateLimit ==
  \A req \in APIRequests :
    (Authentic(req) /\ UnderLimit(req) /\ req.Path \in DOMAIN PartnerRoutes) =>
      LET r == Serve(Chain, req, NoContext, apiRequestIDs, Store, 0)
      IN /\ r.error # ErrMissingPartnerContext
         /\ r.handler = PartnerRoutes[req.Path]

(***************************************************************************)
(* Claims about the circuit breaker.                                       *)
(***************************************************************************)
\* C8: from a closed pair with failures = 0 and a non-empty price history,
\* every one of up to 5 out-of-threshold CheckPrice calls in a row returns
\* CircuitBreakerOpen; after 1 to 4 of them the pair is closed, after the 5th it
\* is open with openedAt the time of that call.
C8_FailureLimitOpens ==
  \A pair \in DOMAIN states :
    LET sk == streak[pair] IN
    (sk.armed /\ sk.n >= 1) =>
      /\ sk.errs
      /\ states[pair].failures = sk.n
      /\ sk.n < DefaultFailureLimit => states[pair].state = StateClosed
      /\ sk.n = DefaultFailureLimit =>
           /\ states[pair].state = StateOpen
           /\ states[pair].openedAt = sk.at
           /\ sk.at # 0

\* five out-of-threshold checks in a row have just opened a pair
C8_Witness ==
  \E pair \in DOMAIN states :
    /\ streak[pair].armed /\ streak[pair].n = DefaultFailureLimit
    /\ states[pair].state = StateOpen
    /\ cbRet = [err |-> ErrCircuitBreakerOpen, pre |-> StateClosed]

\* C9: on a pair that is open with at most 30 s elapsed since openedAt, a
\* CheckPrice with any price returns CircuitBreakerOpen and leaves the pair's
\* state, failures, openedAt and recentPrices as they were.
C9_OpenRejectsWithinWindow ==
  \A pair \in DOMAIN states :
    (states[pair].state = StateOpen /\ cbNow - states[pair].openedAt <= RecoveryWindow) =>
      \A price \in Prices :
        LET r == CheckPriceResult(states, pair, price, cbNow) IN
        /\ r.err = ErrCircuitBreakerOpen
        /\ r.states[pair].state = states[pair].state
        /\ r.states[pair].failures = states[pair].failures
        /\ r.states[pair].openedAt = states[pair].openedAt
        /\ r.states[pair].recentPrices = states[pair].recentPrices

\* a check was made on an open pair exactly 30 s after it opened, and was rejected
C9_Witness ==
  \E pair \in DOMAIN states :
    /\ states[pair].state = StateOpen
    /\ cbNow - states[pair].openedAt = RecoveryWindow
    /\ cbRet = [err |-> ErrCircuitBreakerOpen, pre |-> StateOpen]
    /\ ~streak[pair].armed

\* C10: on a pair that is open with more than 30 s elapsed since openedAt, a
\* CheckPrice moves the pair to half-open with failures 0 and evaluates the
\* price: a price within threshold of the mean succeeds, is appended, and leaves
\* the pair closed with failures 0; a price out of threshold is rejected and
\* leaves the pair half-open with that one failure.
C10_AutoRecovery ==
  \A pair \in DOMAIN states :
    (states[pair].state = StateOpen /\ cbNow - states[pair].openedAt > RecoveryWindow) =>
      \A price \in Prices :
        LET st == states[pair]
            r == CheckPriceResult(states, pair, price, cbNow)
            post == r.states[pair]
        IN /\ st.recentPrices # <<>>
           /\ AverageIsZero(st.recentPrices) =>
                post.state = StateHalfOpen /\ post.failures = 0
           /\ OutOfThreshold(states, pair, price, cbNow) =>
                /\ r.err = ErrCircuitBreakerOpen
                /\ post.state = StateHalfOpen /\ post.failures = 1
                /\ post.recentPrices = st.recentPrices
           /\ (~AverageIsZero(st.recentPrices) /\ ~OutOfThreshold(states, pair, price, cbNow)) =>
                /\ r.err = ErrNil
                /\ post.state = StateClosed /\ post.failures = 0
                /\ post.recentPrices = recordPrice(st, price).recentPrices
                /\ post.recentPrices[Len(post.recentPrices)] = price
                /\ post.openedAt = st.openedAt

\* a check on an open pair has succeeded and closed it
C10_Witness ==
  \E pair \in DOMAIN states :
    /\ cbRet = [err |-> ErrNil, pre |-> StateOpen]
    /\ states[pair].state = StateClosed
    /\ states[pair].failures = 0
    /\ states[pair].openedAt # 0
    /\ cbNow - states[pair].openedAt > RecoveryWindow

\* C11: on a half-open pair, a CheckPrice with an out-of-threshold price
\* returns CircuitBreakerOpen and leaves the pair open with openedAt the time
\* of that check.
C11_HalfOpenFailureReopens ==
  \A pair \in DOMAIN states :
    states[pair].state = StateHalfOpen =>
      \A price \in Prices :
        OutOfThreshold(states, pair, price, cbNow) =>
          LET r == CheckPriceResult(states, pair, price, cbNow) IN
          /\ r.err = ErrCircuitBreakerOpen
          /\ r.states[pair].state = StateOpen
          /\ r.states[pair].openedAt = cbNow

HalfThreshold == [num |-> threshold, den |-> 2 * ThresholdScale]
FullThreshold == [num |-> threshold, den |-> ThresholdScale]

\* C12: a CheckPrice made before the window of the most recent
\* EnableCautionMode call has elapsed (cautionUntil is the end of that window)
\* uses half the base threshold, one made after it has elapsed uses the full
\* base threshold, overlapping windows included.
C12_CautionWindow ==
  LET thr == effectiveThreshold(cautionMode, cautionUntil, cbNow) IN
  /\ cbNow < cautionUntil => thr = HalfThreshold
  /\ cbNow > cautionUntil => thr = FullThreshold

\* the last n elements of a sequence
LastN(seq, n) == IF Len(seq) <= n THEN seq ELSE SubSeq(seq, Len(seq) - n + 1, Len(seq))
\* the fields of a pair that has no state yet
FreshPair ==
  [recentPrices |-> <<>>, lastTradeTs |-> 0, state |-> StateClosed, failures |-> 0,
   openedAt |-> 0]
PairState(sts, pair) == IF pair \in DOMAIN sts THEN sts[pair] ELSE FreshPair

\* C26: RecordTrade(pair, price) appends the price and sets lastTradeTs, and
\* leaves the pair's state, failures and openedAt as they are, whatever the
\* state of the pair; every other pair is untouched.
C26_RecordTradeFrame ==
  \A pair \in Pairs, price \in Prices :
    LET before == PairState(states, pair)
        post == RecordTradeResult(states, pair, price, cbNow)
    IN /\ pair \in DOMAIN post
       /\ post[pair].state = before.state
       /\ post[pair].failures = before.failures
       /\ post[pair].openedAt = before.openedAt
       /\ post[pair].lastTradeTs = cbNow
       /\ post[pair].recentPrices =
            LastN(before.recentPrices \o <<price>>, DefaultMaxPrices)
       /\ \A other \in DOMAIN states \ {pair} :
            other \in DOMAIN post /\ post[other] = states[other]

\* a trade was recorded on an open pair after it opened, and the pair is open
C26_Witness ==
  \E pair \in DOMAIN states :
    /\ states[pair].state = StateOpen
    /\ states[pair].lastTradeTs > states[pair].openedAt
    /\ states[pair].failures = DefaultFailureLimit

\* C27: recentPrices never holds more than DefaultMaxPrices prices, and every
\* call leaves it either as it was or with the new price appended and, if the
\* queue was full, the oldest price dropped: RecordTrade always appends,
\* CheckPrice appends when it returns nil.  The queue is therefore the last
\* DefaultMaxPrices appended prices, in the order they were appended.
C27_RecentPricesBounded ==
  /\ \A pair \in DOMAIN states : Len(states[pair].recentPrices) <= DefaultMaxPrices
  /\ \A pair \in Pairs, price \in Prices :
       LET before == PairState(states, pair).recentPrices
           appended == LastN(before \o <<price>>, DefaultMaxPrices)
           check == CheckPriceResult(states, pair, price, cbNow)
           trade == RecordTradeResult(states, pair, price, cbNow)
       IN /\ trade[pair].recentPrices = appended
          /\ check.states[pair].recentPrices =
               IF check.err = ErrNil THEN appended ELSE before
          /\ Len(before) = DefaultMaxPrices =>
               /\ Len(appended) = DefaultMaxPrices
               /\ \A i \in 1..(DefaultMaxPrices - 1) : appended[i] = before[i + 1]
               /\ appended[DefaultMaxPrices] = price

\* a full queue whose prices differ: an append to it drops its oldest price
C27_Witness ==
  \E pair \in DOMAIN states :
    /\ Len(states[pair].recentPrices) = DefaultMaxPrices
    /\ states[pair].recentPrices[1] # states[pair].recentPrices[DefaultMaxPrices]
    /\ states[pair].lastTradeTs > 0

\* C30: the failure count counts out-of-threshold checks in a row: a CheckPrice
\* on a closed pair whose price is within threshold returns nil and leaves the
\* pair closed with failures = 0, so that the count restarts after every
\* successful check.
C30_FailuresAreConsecutive ==
  \A pair \in DOMAIN states :
    states[pair].state = StateClosed =>
      \A price \in Prices :
        LET r == CheckPriceResult(states, pair, price, cbNow) IN
        r.err = ErrNil =>
          /\ r.states[pair].state = StateClosed
          /\ r.states[pair].failures = 0

\* C36: in every reachable state of the breaker and for every pair, failures
\* is between 0 and DefaultFailureLimit, the pair is open exactly when failures
\* is DefaultFailureLimit, and an open pair has openedAt set.
C36_FailuresAndOpen ==
  \A pair \in DOMAIN states :
    /\ states[pair].failures >= 0
    /\ states[pair].failures <= DefaultFailureLimit
    /\ states[pair].state = StateOpen <=> states[pair].failures = DefaultFailureLimit
    /\ states[pair].state = StateOpen => states[pair].openedAt # 0

\* a pair that opened, recovered, and has been opened again by the checks
\* that failed while it was half-open
C36_Witness ==
  \E pair \in DOMAIN states :
    /\ states[pair].state = StateOpen
    /\ states[pair].failures = DefaultFailureLimit
    /\ states[pair].openedAt = cbNow
    /\ cbRet = [err |-> ErrCircuitBreakerOpen, pre |-> StateHalfOpen]

\* C37: CheckPrice returns nil or CircuitBreakerOpen for every pair, price and
\* history, a history of mean zero included; it ends in no other way.
C37_CheckPriceNeverPanics ==
  \A pair \in Pairs, price \in Prices :
    CheckPriceResult(states, pair, price, cbNow).err \in {ErrNil, ErrCircuitBreakerOpen}

\* C38: a step changes the recentPrices of a pair only if it is a RecordTrade
\* for the pair or a CheckPrice for the pair that returns nil, and a
\* CheckPrice that returns CircuitBreakerOpen leaves recentPrices as it was.
C38_OnlyAcceptedPricesRecorded ==
  /\ [](\A pair \in Pairs, price \in Prices :
         CheckPriceResult(states, pair, price, cbNow).err = ErrCircuitBreakerOpen =>
           PairState(CheckPriceResult(states, pair, price, cbNow).states,
                     pair).recentPrices = PairState(states, pair).recentPrices)
  /\ [][\A pair \in Pairs :
          PairState(states', pair).recentPrices # PairState(states, pair).recentPrices =>
            \E price \in Prices :
              \/ states' = RecordTradeResult(states, pair, price, cbNow)
              \/ /\ cbRet'.err = ErrNil
                 /\ states' = CheckPriceResult(states, pair, price, cbNow).states]_vars

\* a check has been rejected and the history holds the one price admitted
\* before it
C38_Witness ==
  \E pair \in DOMAIN states :
    /\ cbRet = [err |-> ErrCircuitBreakerOpen, pre |-> StateClosed]
    /\ states[pair].recentPrices = <<100>>
    /\ states[pair].failures = 2
    /\ states[pair].lastTradeTs = 0

\* the goroutines at a read or a write of the breaker's instance state
AtAccess == {t \in Callers : lkPc[t] \in {"body", "write"}}
AtWrite ==
  {t \in Callers : lkPc[t] = "write"
                     \/ (lkPc[t] = "body" /\ lkOp[t].name \in {"CheckPrice", "RecordTrade"})}

\* C25: every read and every write of the breaker's instance state (the
\* states, the caution flags, the persist callback) is made by a goroutine
\* holding cb.mu, a write by the goroutine holding it for writing; this
\* includes SetPersistCallback and the caution timer's callback.
C25_AccessUnderLock ==
  /\ \A t \in AtAccess : cbMu = t \/ t \in cbReaders
  /\ \A t \in AtWrite : cbMu = t
  /\ timerPc = "body" => cbMu = TimerGoroutine

(***************************************************************************)
(* Claims about the pathfinder.                                            *)
(***************************************************************************)
\* the last call of FindBestRoute returned a route
RouteReturned == pfCall.err = ErrNil

\* C13: a route returned by FindBestRoute(in, out, amount) is non-empty, has at
\* most MaxHops hops, starts at in and ends at out, has each hop start where
\* the hop before it ends, and chains the amounts from the amount requested.
C13_RouteSound ==
  RouteReturned =>
    LET hops == pfCall.hops IN
    /\ Len(hops) >= 1
    /\ Len(hops) <= MaxHops
    /\ hops[1].In = pfCall.in
    /\ hops[Len(hops)].Out = pfCall.out
    /\ hops[1].AmountIn = pfCall.amount
    /\ \A i \in 1..(Len(hops) - 1) :
         /\ hops[i].Out = hops[i + 1].In
         /\ hops[i + 1].AmountIn = hops[i].AmountOut

\* a route of three hops has been returned
C13_Witness == RouteReturned /\ Len(pfCall.hops) = MaxHops

\* the assets joined by a directed edge of the snapshot: a pool in both
\* directions, an offer from TakerPays to TakerGets
SnapshotEdges ==
  {<<String(pfPools[i].Asset1), String(pfPools[i].Asset2)>> : i \in DOMAIN pfPools}
    \cup {<<String(pfPools[i].Asset2), String(pfPools[i].Asset1)>> : i \in DOMAIN pfPools}
    \cup {<<String(pfOffers[i].TakerPays), String(pfOffers[i].TakerGets)>> : i \in DOMAIN pfOffers}

\* the assets a directed path leads to from the assets in S (S itself included)
RECURSIVE ReachableFrom(_)
ReachableFrom(S) ==
  LET T == S \cup {e[2] : e \in {d \in SnapshotEdges : d[1] \in S}}
  IN IF T = S THEN S ELSE ReachableFrom(T)

\* the path the search recovers for the last call
RecoveredPath ==
  dijkstra(buildGraph(pfPools, pfOffers), String(pfCall.in), String(pfCall.out))

\* C14: FindBestRoute returns NoRoute and no route when the snapshot has no
\* directed path from in to out, and when the path the search recovers has
\* more than MaxHops + 1 nodes.
C14_NoRoute ==
  pfCall.err # "" =>
    /\ String(pfCall.out) \notin ReachableFrom({String(pfCall.in)}) =>
         pfCall.err = ErrNoRoute /\ pfCall.hops = <<>>
    /\ Len(RecoveredPath) > MaxHops + 1 =>
         pfCall.err = ErrNoRoute /\ pfCall.hops = <<>>

\* the search has recovered a path of four hops and the call has returned NoRoute
C14_Witness ==
  /\ pfCall.err = ErrNoRoute
  /\ Len(RecoveredPath) = MaxHops + 2
  /\ String(pfCall.out) \in ReachableFrom({String(pfCall.in)})

\* C15: on a snapshot whose only liquidity is one offer from in to out, of any
\* quality > 0, FindBestRoute(in, out, x) returns a route of exactly one
\* orderbook hop with AmountOut = x * quality.
C15_SingleOfferRoute ==
  ( /\ pfCall.err # ""
    /\ pfPools = <<>> /\ Len(pfOffers) = 1
    /\ pfOffers[1].TakerPays = pfCall.in /\ pfOffers[1].TakerGets = pfCall.out
    /\ pfOffers[1].Quality.num > 0 ) =>
      /\ pfCall.err = ErrNil
      /\ Len(pfCall.hops) = 1
      /\ pfCall.hops[1].Type = "orderbook"
      /\ DecEq(pfCall.hops[1].AmountOut, DecMul(pfCall.amount, pfOffers[1].Quality))

\* the assets a directed path of at most n edges leads to from the assets in S
RECURSIVE ReachableWithin(_, _)
ReachableWithin(S, n) ==
  IF n = 0 THEN S
  ELSE ReachableWithin(S \cup {e[2] : e \in {d \in SnapshotEdges : d[1] \in S}}, n - 1)

\* C31: for in # out, FindBestRoute returns a route whenever the snapshot has
\* a directed path from in to out of at most MaxHops hops, and returns NoRoute
\* only when it has none, also when a cheaper path of more hops exists.
C31_RouteWheneverShortPath ==
  (pfCall.err # "" /\ pfCall.in # pfCall.out) =>
    LET short == String(pfCall.out) \in ReachableWithin({String(pfCall.in)}, MaxHops)
    IN /\ short => pfCall.err = ErrNil
       /\ pfCall.err = ErrNoRoute => ~short

\* the edges of the snapshot's graph, as <<from, to, cost>>
CostEdges ==
  LET graph == buildGraph(pfPools, pfOffers)
  IN UNION {{<<k, graph[k][i].to, graph[k][i].cost>> : i \in DOMAIN graph[k]} :
              k \in DOMAIN graph}

Min(S) == CHOOSE x \in S : \A y \in S : x <= y

\* the least cost of a directed path from from to to that enters no asset of
\* seen and no asset twice; MaxFloat64 when there is none
RECURSIVE MinPathCost(_, _, _)
MinPathCost(from, to, seen) ==
  IF from = to THEN 0
  ELSE LET steps == {e \in CostEdges : e[1] = from /\ e[2] \notin seen}
           costs == {e[3] + MinPathCost(e[2], to, seen \cup {e[2]}) : e \in steps}
       IN Min(costs \cup {MaxFloat64})

\* the cost of a node path, each step by its cheapest edge
RECURSIVE PathCost(_, _)
PathCost(path, i) ==
  IF i >= Len(path) THEN 0
  ELSE Min({e[3] : e \in {d \in CostEdges : d[1] = path[i] /\ d[2] = path[i + 1]}})
         + PathCost(path, i + 1)

\* C32: the node path the search recovers for a call with in # out has the
\* least additive cost, the sum of 1 - weight over its edges, of all directed
\* paths from in to out in the snapshot's graph, offers of quality above 1
\* (negative edge cost) included.
C32_PathOfLeastCost ==
  (pfCall.err # "" /\ pfCall.in # pfCall.out /\ RecoveredPath # <<>>) =>
    PathCost(RecoveredPath, 1) =
      MinPathCost(String(pfCall.in), String(pfCall.out), {String(pfCall.in)})

\* the edges of the snapshot's graph, with their pool or offer
GraphEdges ==
  LET graph == buildGraph(pfPools, pfOffers)
  IN UNION {{graph[k][i] : i \in DOMAIN graph[k]} : k \in DOMAIN graph}

\* the edges of least cost among those that join two assets
CheapestEdges(from, to) ==
  LET joining == {e \in GraphEdges : e.from = from /\ e.to = to}
  IN {e \in joining : \A d \in joining : e.cost <= d.cost}

\* type and amount out of a hop made with the pool or offer of an edge
EdgeType(e) == IF e.pool # 0 THEN "amm" ELSE "orderbook"
EdgeAmountOut(e, amountIn) ==
  IF e.pool # 0
  THEN calculateAMMOutput(pfPools[e.pool], amountIn,
                          String(pfPools[e.pool].Asset1) = e.from)
  ELSE DecMul(amountIn, pfOffers[e.offer].Quality)

\* C33: every hop of a returned route has the type and the amount out of a
\* pool or offer of least edge cost among those that join the hop's two
\* assets in its direction, the one the search priced the step with.
C33_HopFromSearchedEdge ==
  RouteReturned =>
    \A i \in DOMAIN pfCall.hops :
      LET hop == pfCall.hops[i] IN
      \E e \in CheapestEdges(String(hop.In), String(hop.Out)) :
        /\ hop.Type = EdgeType(e)
        /\ DecEq(hop.AmountOut, EdgeAmountOut(e, hop.AmountIn))

(***************************************************************************)
(* Claims about the quote engine.                                          *)
(***************************************************************************)
QuoteReturned == qeCall.err # ""
QuoteFailed == QuoteReturned /\ qeCall.err # ErrNil
IsPrefix(s, t) == Len(s) <= Len(t) /\ SubSeq(t, 1, Len(s)) = s

\* C16: GenerateQuote invokes validator, pathfinder, breaker and hashing in
\* this order and stops at the first failure: a request that fails validation
\* returns the validator's error with neither the pathfinder nor the breaker
\* invoked, a request without a route returns the pathfinder's error with the
\* breaker not invoked, and only a call without error runs all four phases.
C16_PhaseOrder ==
  QuoteReturned =>
    LET req == qeCall.req
        verr == ValidateQuoteRequest(req)
        route == FindBestRoute(pfPools, pfOffers, req.In, req.Out, req.Amount)
    IN /\ qeCall.trace # <<>> /\ IsPrefix(qeCall.trace, Phases)
       /\ qeCall.err = ErrNil <=> qeCall.trace = Phases
       /\ verr # ErrNil =>
            /\ qeCall.err = verr
            /\ qeCall.trace = <<PhaseValidator>>
            /\ qeCall.post = qeCall.pre
       /\ (verr = ErrNil /\ route.err # ErrNil) =>
            /\ qeCall.err = route.err
            /\ qeCall.trace = <<PhaseValidator, PhasePathfinder>>
            /\ qeCall.post = qeCall.pre
       /\ qeCall.err = ErrCircuitBreakerOpen =>
            qeCall.trace = <<PhaseValidator, PhasePathfinder, PhaseBreaker>>

C16_Witness ==
  /\ qeCall.err = ErrNoRoute
  /\ qeCall.trace = <<PhaseValidator, PhasePathfinder>>
  /\ QuotePair \in DOMAIN qeCall.pre

\* C17 as stated: a GenerateQuote call that returns an error leaves the
\* breaker's per-pair state (recent_prices, failures, state, opened_at) as it
\* was before the call.
C17_FailedQuoteChangesNothing == QuoteFailed => qeCall.post = qeCall.pre

\* C17 as the code has it: a call that fails before the breaker is asked
\* changes nothing; a call the breaker rejects changes the state of the
\* request's pair only, and there neither recent_prices nor last_trade_ts.
C17_FailedQuoteFrame ==
  QuoteFailed =>
    LET pair == String(qeCall.req.In) \o "-" \o String(qeCall.req.Out)
    IN /\ PhaseBreaker \notin Range(qeCall.trace) => qeCall.post = qeCall.pre
       /\ DOMAIN qeCall.post = DOMAIN qeCall.pre
       /\ \A p \in DOMAIN qeCall.post :
            /\ qeCall.post[p].recentPrices = qeCall.pre[p].recentPrices
            /\ qeCall.post[p].lastTradeTs = qeCall.pre[p].lastTradeTs
            /\ p # pair => qeCall.post[p] = qeCall.pre[p]

C17_Witness ==
  /\ qeCall.err = ErrCircuitBreakerOpen
  /\ qeCall.post[QuotePair].failures = qeCall.pre[QuotePair].failures + 1
  /\ qeCall.post[QuotePair].state = StateOpen
  /\ qeCall.pre[QuotePair].state = StateClosed

\* C21: every quote GenerateQuote returns carries a price impact in [0, 1].
C21_PriceImpactInUnitInterval ==
  QuoteReturned =>
    /\ ~DecLess(qeCall.impact, DecInt(0))
    /\ ~DecLess(DecInt(1), qeCall.impact)

\* the checks of a request in the order of the claim, each with the
\* rejections it may give
WellFormed(asset) ==
  \/ asset.Currency = "XRP" /\ asset.Issuer = ""
  \/ /\ asset.Currency # "XRP"
     /\ MatchesCurrencyRegex(asset.Currency)
     /\ IsValidXRPLAddress(asset.Issuer)
AssetRejections == {ErrInvalidAsset, ErrInvalidAddress}
ValidationChecks(req) ==
  << [fails |-> req.Amount.num <= 0, rejections |-> {ErrInvalidAmount}],
     [fails |-> req.Amount.num > MaxAmount * req.Amount.den,
      rejections |-> {ErrAmountTooLarge}],
     [fails |-> ~WellFormed(req.In), rejections |-> AssetRejections],
     [fails |-> ~WellFormed(req.Out), rejections |-> AssetRejections],
     [fails |-> req.In = req.Out, rejections |-> {ErrSameAssets}] >>
FirstFailing(checks) ==
  CHOOSE i \in DOMAIN checks :
    checks[i].fails /\ \A j \in 1..(i - 1) : ~checks[j].fails

\* C22: ValidateQuoteRequest checks amount > 0, amount <= MaxAmount, the input
\* asset, the output asset and input # output in this order and returns the
\* rejection of the first check that fails; it admits the request if and only
\* if every check passes, and it changes no state.
C22_ValidationOrder ==
  QuoteReturned =>
    LET checks == ValidationChecks(qeCall.req)
    IN IF \E i \in DOMAIN checks : checks[i].fails
       THEN /\ qeCall.trace = <<PhaseValidator>>
            /\ qeCall.err \in checks[FirstFailing(checks)].rejections
            /\ qeCall.post = qeCall.pre
       ELSE /\ Len(qeCall.trace) > 1
            /\ qeCall.err \notin
                 {ErrInvalidAmount, ErrAmountTooLarge, ErrSameAssets} \cup AssetRejections

\* a request that fails the first and the third check is rejected for its amount
C22_Witness ==
  /\ qeCall.req.Amount.num = 0
  /\ qeCall.req.In = BadAsset
  /\ qeCall.trace = <<PhaseValidator>>
  /\ qeCall.err = ErrInvalidAmount

RouterReturned == rtCall.err # ""

\* C28: every Router.Quote call hands exactly one audit record to the store,
\* with outcome success and severity info if and only if a quote is returned,
\* otherwise with outcome rejected, severity warn and the error as error_code;
\* what the call returns is what GenerateQuote returned, whether or not the
\* store wrote the record.
C28_OneAuditPerQuote ==
  RouterReturned =>
    /\ Len(rtCall.audits) = 1
    /\ LET log == rtCall.audits[1]
       IN IF rtCall.err = ErrNil
          THEN log.outcome = "success" /\ log.severity = "info" /\ log.error_code = ""
          ELSE log.outcome = "rejected" /\ log.severity = "warn"
               /\ log.error_code = rtCall.err
    /\ rtCall.err = qeCall.err /\ rtCall.hash = qeCall.hash

(***************************************************************************)
(* Claims about the quote hash.                                            *)
(***************************************************************************)
\* two evaluations with equal field values; decimals are equal by value
SameFields(a, b) ==
  /\ String(a.req.In) = String(b.req.In)
  /\ String(a.req.Out) = String(b.req.Out)
  /\ DecEq(a.req.Amount, b.req.Amount)
  /\ a.fees.RouterBps = b.fees.RouterBps
  /\ DecEq(a.fees.TradingFees, b.fees.TradingFees)
  /\ DecEq(a.fees.EstOutFee, b.fees.EstOutFee)
  /\ a.ledgerIndex = b.ledgerIndex
  /\ a.ttl = b.ttl

\* C18: ComputeQuoteHash is a function of the field values only: two
\* evaluations with equal field values give the same hash, whatever the number
\* of evaluations before them and whichever process makes them.
C18_HashDeterministic ==
  (hsCount >= 2 /\ SameFields(hsFirst, hsLast)) => hsFirst.hash = hsLast.hash

C18_Witness ==
  /\ hsCount = MaxEvaluations
  /\ SameFields(hsFirst, hsLast)
  /\ hsFirst.process # hsLast.process
  /\ hsFirst.req.Amount # hsLast.req.Amount

\* the hash of the fields of an evaluation
HashOf(ev) == ComputeQuoteHash(ev.req, ev.fees, ev.ledgerIndex, ev.ttl, KeyNames, KeyNames)
\* one unit in the last place of a decimal
NextUp(d) == Dec(d.num + 1, d.den)

SensitiveToAmount(ev) == HashOf([ev EXCEPT !.req.Amount = NextUp(@)]) # HashOf(ev)
SensitiveToEstOutFee(ev) == HashOf([ev EXCEPT !.fees.EstOutFee = NextUp(@)]) # HashOf(ev)
SensitiveToRouterBps(ev) ==
  \A n \in 0..(MaxInt - 1) :
    HashOf([ev EXCEPT !.fees.RouterBps = n]) # HashOf([ev EXCEPT !.fees.RouterBps = n + 1])
SensitiveToLedgerIndex(ev) ==
  \A n \in 0..(MaxUint32 - 1) :
    HashOf([ev EXCEPT !.ledgerIndex = n]) # HashOf([ev EXCEPT !.ledgerIndex = n + 1])
SensitiveToTTL(ev) ==
  \A n \in 0..(MaxUint16 - 1) :
    HashOf([ev EXCEPT !.ttl = n]) # HashOf([ev EXCEPT !.ttl = n + 1])
SensitiveToSwap(ev) ==
  ev.req.In # ev.req.Out =>
    HashOf([ev EXCEPT !.req.In = ev.req.Out, !.req.Out = ev.req.In]) # HashOf(ev)

\* C19: with the other fields as evaluated, changing amount, router_bps,
\* ledger_index, ttl or est_out_fee by one unit, at any value of the field's
\* type, or swapping in and out, changes the canonical bytes and the hash.
C19_HashSensitive ==
  hsCount > 0 =>
    /\ SensitiveToAmount(hsLast)
    /\ SensitiveToRouterBps(hsLast)
    /\ SensitiveToLedgerIndex(hsLast)
    /\ SensitiveToTTL(hsLast)
    /\ SensitiveToEstOutFee(hsLast)
    /\ SensitiveToSwap(hsLast)

\* the same, without router_bps
HashSensitiveElsewhere ==
  hsCount > 0 =>
    /\ SensitiveToAmount(hsLast)
    /\ SensitiveToLedgerIndex(hsLast)
    /\ SensitiveToTTL(hsLast)
    /\ SensitiveToEstOutFee(hsLast)
    /\ SensitiveToSwap(hsLast)

(***************************************************************************)
(* Claims about the AMM hop output.                                        *)
(***************************************************************************)
\* the fees the model can hold, and the amounts the output is compared at:
\* the amount of the call, whole amounts, and two amounts below the last
\* decimal place the division keeps
AmmFees == {0, FeeStep, CostScale}
AmmAmounts ==
  {DecInt(1), DecInt(2), DecInt(10), Dec(1, 10 * Pow10(DivisionPrecision)),
   Dec(2, 10 * Pow10(DivisionPrecision))} \cup {a \in {pfCall.amount} : a.num > 0}
WithFee(pool, fee) == [pool EXCEPT !.TradingFeeBps = fee]
\* the quotient of a call before the division rounds it, compared exactly
ExactLess(pool1, amount1, pool2, amount2, dir) ==
  ammNumerator(pool1, amount1, dir) * ammDenominator(pool2, amount2, dir)
    < ammNumerator(pool2, amount2, dir) * ammDenominator(pool1, amount1, dir)

\* C20 as stated: for every pool and every fee in 0..10000 bps the output of
\* calculateAMMOutput is strictly increasing in the amount and, for a fixed
\* amount > 0, strictly decreasing in the fee.
C20_AMMStrictlyMonotone ==
  \A i \in DOMAIN pfPools, dir \in BOOLEAN :
    /\ \A fee \in AmmFees, a1 \in AmmAmounts, a2 \in AmmAmounts :
         DecLess(a1, a2) =>
           DecLess(calculateAMMOutput(WithFee(pfPools[i], fee), a1, dir),
                   calculateAMMOutput(WithFee(pfPools[i], fee), a2, dir))
    /\ \A a \in AmmAmounts, fee1 \in AmmFees, fee2 \in AmmFees :
         fee1 < fee2 =>
           DecLess(calculateAMMOutput(WithFee(pfPools[i], fee2), a, dir),
                   calculateAMMOutput(WithFee(pfPools[i], fee1), a, dir))

\* C20 as the code has it: the output never decreases with the amount and
\* never increases with the fee; the quotient before rounding is strictly
\* increasing in the amount for a fee below 10000 bps and strictly decreasing
\* in the fee; at 10000 bps the output is 0.
C20_AMMMonotone ==
  \A i \in DOMAIN pfPools, dir \in BOOLEAN :
    /\ \A fee \in AmmFees, a1 \in AmmAmounts, a2 \in AmmAmounts :
         DecLess(a1, a2) =>
           /\ ~DecLess(calculateAMMOutput(WithFee(pfPools[i], fee), a2, dir),
                       calculateAMMOutput(WithFee(pfPools[i], fee), a1, dir))
           /\ fee < CostScale =>
                ExactLess(WithFee(pfPools[i], fee), a1, WithFee(pfPools[i], fee), a2, dir)
    /\ \A a \in AmmAmounts, fee1 \in AmmFees, fee2 \in AmmFees :
         fee1 < fee2 =>
           /\ ~DecLess(calculateAMMOutput(WithFee(pfPools[i], fee1), a, dir),
                       calculateAMMOutput(WithFee(pfPools[i], fee2), a, dir))
           /\ ExactLess(WithFee(pfPools[i], fee2), a, WithFee(pfPools[i], fee1), a, dir)
    /\ \A a \in AmmAmounts :
         calculateAMMOutput(WithFee(pfPools[i], CostScale), a, dir).num = 0

\* a route through a pool that takes all of its input as fee
C20_Witness ==
  /\ RouteReturned
  /\ \E i \in DOMAIN pfCall.hops, j \in DOMAIN pfPools :
       /\ pfCall.hops[i].Type = "amm"
       /\ pfPools[j].TradingFeeBps = CostScale
       /\ pfCall.hops[i].In = pfPools[j].Asset1 /\ pfCall.hops[i].Out = pfPools[j].Asset2
       /\ pfCall.hops[i].AmountIn.num > 0
       /\ pfCall.hops[i].AmountOut.num = 0

====
